---------------------------- MODULE Spec2Model ----------------------------
(***************************************************************************)
(* Model of the deployment orchestration core of deploy-platform:          *)
(* the record store (deployments, builds, hostnames), the hostname         *)
(* allocator (internal/hostname/manager.go), the build pipeline            *)
(* (internal/build/service.go), the Kubernetes publisher                   *)
(* (internal/kubernetes/deployment.go), the worker loop                    *)
(* (internal/queue/worker.go) and the push webhook that feeds it, with its  *)
(* rate limiter (internal/ratelimit/limiter.go) and signature test.        *)
(*                                                                         *)
(* Strings are sequences of one-character strings, so that lower-casing,   *)
(* character replacement, splitting and number formatting are computed     *)
(* the way the Go code computes them.  Every record-store call is one      *)
(* atomic step; a worker's position between two calls is its pc.           *)
(***************************************************************************)
EXTENDS Naturals, Sequences, FiniteSets

(***************************************************************************)
(* Bounds of the model.                                                    *)
(***************************************************************************)
MaxDeployments == 3
MaxCleanups == 1
MaxFaults == 1
ConcWorkers == 2
ConcProjects == 1
MaxPool == 2
MaxCallers == 1
MaxRejected == 1
\* ids handed to Enqueue, each at most once
QueueIDs == {5, 7, 9}

(***************************************************************************)
(* Strings.                                                                *)
(***************************************************************************)
Empty == << >>

Dot == "."

Dash == "-"

UpperLetters ==
    <<"A", "B", "C", "D", "E", "F", "G", "H", "I", "J", "K", "L", "M", "N", "O", "P", "Q",
      "R", "S", "T", "U", "V", "W", "X", "Y", "Z">>

LowerLetters ==
    <<"a", "b", "c", "d", "e", "f", "g", "h", "i", "j", "k", "l", "m", "n", "o", "p", "q",
      "r", "s", "t", "u", "v", "w", "x", "y", "z">>

\* strings.ToLower on one character
LowerChar(c) ==
    IF \E i \in DOMAIN UpperLetters : UpperLetters[i] = c
    THEN LowerLetters[CHOOSE i \in DOMAIN UpperLetters : UpperLetters[i] = c]
    ELSE c

\* strings.ToLower
ToLower(s) == [i \in 1..Len(s) |-> LowerChar(s[i])]

\* strings.ReplaceAll(s, old, new) for one-character old and new
ReplaceAll(s, old, new) == [i \in 1..Len(s) |-> IF s[i] = old THEN new ELSE s[i]]

\* strings.Split(s, sep)[0]: the part of s before the first sep, s itself when there is none
SplitFirst(s, sep) ==
    IF \E i \in 1..Len(s) : s[i] = sep
    THEN LET first == CHOOSE i \in 1..Len(s) :
                          /\ s[i] = sep
                          /\ \A j \in 1..(i - 1) : s[j] # sep
         IN SubSeq(s, 1, first - 1)
    ELSE s

DigitChar(n) ==
    CASE n = 0 -> "0" [] n = 1 -> "1" [] n = 2 -> "2" [] n = 3 -> "3" [] n = 4 -> "4"
      [] n = 5 -> "5" [] n = 6 -> "6" [] n = 7 -> "7" [] n = 8 -> "8" [] n = 9 -> "9"

RECURSIVE Itoa(_)
\* fmt's %d of a non-negative integer
Itoa(n) == IF n < 10 THEN <<DigitChar(n)>> ELSE Itoa(n \div 10) \o <<DigitChar(n % 10)>>

\* cfg.BaseDomain, default "localhost"
BaseDomain == <<"l", "o", "c", "a", "l", "h", "o", "s", "t">>

(***************************************************************************)
(* Hostname manager: pure part.                                            *)
(***************************************************************************)
\* Manager.GenerateProjectHostname
GenerateProjectHostname(projectSlug) ==
    LET s1 == ToLower(ReplaceAll(projectSlug, " ", Dash))
        s2 == ReplaceAll(s1, "_", Dash)
        s3 == ReplaceAll(s2, Dot, Dash)
        s4 == ReplaceAll(s3, "/", Dash)
    IN s4 \o <<Dot>> \o BaseDomain

\* variant: the counter is formatted before it is incremented
SuffixedHostnameStaleCounter(originalHostname, counter) ==
    SplitFirst(originalHostname, Dot) \o <<Dash>> \o Itoa(counter - 1) \o <<Dot>> \o BaseDomain

\* the probe loop's next candidate: "%s-%d.%s" of the first label, the counter, the base domain
SuffixedHostname(originalHostname, counter) ==
    SplitFirst(originalHostname, Dot) \o <<Dash>> \o Itoa(counter) \o <<Dot>> \o BaseDomain

(***************************************************************************)
(* Projects: rows of the projects table.  Slugs come from generateSlug,    *)
(* which keeps letter case, so "App", "app" and "APP" are distinct slugs   *)
(* under the unique index and fold to the same hostname candidate.         *)
(***************************************************************************)
Projects ==
    [p \in {1, 2, 3} |->
        CASE p = 1 -> [slug |-> <<"A", "p", "p">>, name |-> <<"A", "p", "p">>,
                       repoName |-> <<"a", "p", "p">>]
          [] p = 2 -> [slug |-> <<"a", "p", "p">>, name |-> <<"a", "p", "p">>,
                       repoName |-> <<"a", "p", "p">>]
          [] p = 3 -> [slug |-> <<"A", "P", "P">>, name |-> <<"A", "P", "P">>,
                       repoName |-> <<"a", "p", "p">>]]

ProjectIDs == DOMAIN Projects

\* AssignHostname's choice of the slug: Slug, else lower(Name), else lower(RepoName), else "deploy"
ProjectSlugOf(project) ==
    IF project.slug # Empty THEN project.slug
    ELSE IF ToLower(project.name) # Empty THEN ToLower(project.name)
    ELSE IF ToLower(project.repoName) # Empty THEN ToLower(project.repoName)
    ELSE <<"d", "e", "p", "l", "o", "y">>

VARIABLES
    deployments,   \* table deployments: sequence of rows, index = ID
    builds,        \* table builds
    hostnames,     \* table hostnames
    queue,         \* InMemoryQueue.items
    k8sDeployments,\* cluster: Deployment name -> image
    k8sServices,   \* cluster: set of Service names
    k8sIngresses,  \* cluster: Ingress name -> host
    k8sConfigured, \* Service.k8sClient != nil && Service.hostnameMgr != nil
    pool,          \* goroutines that run BuildDeployment: the workers started by
                   \* WorkerPool.Start, or one per Deployment for the direct build
    wk,            \* per worker: pc and the locals of the running call
    returned,      \* history: <<project, deployment, hostname>> returned by AssignHostname
    published,     \* history: deployments for which deployToKubernetes returned nil
    finished,      \* history: <<deployment, error>> of every BuildDeployment call that returned
    cleanups,      \* number of operator clean-ups of the cluster so far
    faults,        \* number of external calls (build, cluster API) that have failed so far
    projects,      \* ids of the rows of the projects table
    buildQueue,    \* the webhook package's buildQueue != nil (main.go built service, queue and pool)
    rejected,      \* number of pushes answered 500 because the store rejected the insert
    overlapped     \* history: pairs of Deployments whose deployToKubernetes calls overlapped

corevars == <<deployments, builds, hostnames, queue, k8sDeployments, k8sServices,
              k8sIngresses, k8sConfigured, pool, wk, returned, published, finished,
              cleanups, faults, projects, buildQueue, rejected, overlapped>>

(***************************************************************************)
(* InMemoryQueue and WorkerPool at the level of goroutines: the mutex, the *)
(* condition variable's wait list, the waiter goroutine each blocked       *)
(* Dequeue call spawns, the pool's context and WaitGroup.  A sync.Mutex    *)
(* belongs to no goroutine: Unlock by any goroutine releases it, and       *)
(* Unlock of an unlocked mutex is a fatal error that ends the process.     *)
(***************************************************************************)
VARIABLES
    items,         \* InMemoryQueue.items
    mu,            \* InMemoryQueue.mu is locked
    notify,        \* InMemoryQueue.cond: waiters in cond.Wait, in arrival order
    waiter,        \* per worker: position of the goroutine its Dequeue call spawned
    done,          \* per worker: the done channel of its Dequeue call is closed
    ctxDone,       \* WorkerPool.ctx is cancelled
    wgCount,       \* WorkerPool.wg counter
    pw,            \* per worker: position in WorkerPool.worker / Dequeue, and Dequeue's result
    enq,           \* per caller: position in Enqueue and its argument
    stop,          \* position of the WorkerPool.Stop call
    fatal,         \* "" or the call that ended the process (fatal error or panic)
    qpool,         \* worker ids of the pool (WorkerPool.workers)
    enqueued,      \* history: ids in the order Enqueue appended them
    dequeued       \* history: [worker, id, pending] in the order Dequeue removed them

qvars == <<items, mu, notify, waiter, done, ctxDone, wgCount, pw, enq, stop, fatal,
           qpool, enqueued, dequeued>>

(***************************************************************************)
(* Recipe resolution of one source tree (detectAndCreateDockerfile) and    *)
(* the project registry behind CreateProject.                              *)
(***************************************************************************)
VARIABLES
    tree,          \* marker files present in the cloned source tree
    writeErr,      \* os.WriteFile of a generated Dockerfile fails
    probe,         \* position in detectAndCreateDockerfile
    recipe,        \* its result: [dockerfile, generated, err]
    projectRows,   \* table projects as CreateProject sees it: sequence of rows, index = ID
    handlers       \* per CreateProject request in flight: position, request, requesting user

recipevars == <<tree, writeErr, probe, recipe>>

projvars == <<projectRows, handlers>>

qvarsButFatal == <<items, mu, notify, waiter, done, ctxDone, wgCount, pw, enq, stop,
                  qpool, enqueued, dequeued>>

(***************************************************************************)
(* The edge of the program: the hostname candidate of one Project row, the *)
(* webhook route with its rate limiter and signature check.  Time is       *)
(* counted in whole seconds.                                               *)
(***************************************************************************)
VARIABLES
    assignee,      \* the Project row AssignHostname has loaded: slug, name, repoName
    derived,       \* the hostname AssignHostname derived for it, before any probe
    cfgSecret,     \* cfg.WebhookSecret (environment variable WEBHOOK_SECRET)
    limiter,       \* the Limiter: rate, duration, tokens, lastUpdate
    clock,         \* time.Now(), seconds since the Limiter was created
    allowedAt,     \* history: the times at which Allow returned true
    response,      \* the last webhook request served and the answer to it
    buildService,  \* github.buildService is set
    saveByValue,   \* what DB.Save of a Deployment passed by value does in this build
    push           \* per webhook request in flight: position, request, project, commit, row

edgevars == <<assignee, derived, cfgSecret, limiter, clock, allowedAt, response,
              buildService, saveByValue, push>>

vars == <<corevars, qvars, recipevars, projvars, edgevars>>

MaxHandlers == 2

\* webhook requests handled at the same time
MaxInflight == 1

\* queue.NewWorkerPool(buildQueue, buildService, 3)
PoolSize == 3

NoRecipe == [dockerfile |-> "", generated |-> "", err |-> ""]

ProbeOrderGoFirst == <<"Dockerfile", "go.mod", "package.json", "requirements.txt">>

\* detectAndCreateDockerfile: the files it looks for, in the order of its if statements
ProbeOrder == <<"Dockerfile", "package.json", "requirements.txt", "go.mod">>

\* files a cloned source tree may hold
TreeFiles == {"Dockerfile", "package.json", "requirements.txt", "go.mod", "README.md"}

\* position of detectAndCreateDockerfile after its return
Resolved == Len(ProbeOrder) + 1

\* the zero value of models.Project
NoProjectRow == [user |-> 0, name |-> Empty, slug |-> Empty, repo |-> Empty]

IdleHandler ==
    [pc |-> "idle", name |-> Empty, repo |-> Empty, user |-> 0, existing |-> 0,
     row |-> NoProjectRow, response |-> 0]

\* no recipe resolution and no CreateProject request under way
NoDetection ==
    /\ tree = {}
    /\ writeErr = FALSE
    /\ probe = Resolved
    /\ recipe = NoRecipe

NoRequests ==
    /\ projectRows = << >>
    /\ handlers = [h \in 1..MaxHandlers |-> IdleHandler]

Running == fatal = ""

NoProject == [slug |-> Empty, name |-> Empty, repoName |-> Empty]

\* ratelimit.NewLimiter(rate, duration) at time now
NewLimiter(rate, duration, now) ==
    [rate |-> rate, duration |-> duration, tokens |-> rate, lastUpdate |-> now]

\* main: ratelimit.NewLimiter(10, 60*time.Second)
WebhookLimiter == NewLimiter(10, 60, 0)

Min(a, b) == IF a < b THEN a ELSE b

\* Limiter.Allow, the refill: one token per duration/rate of elapsed time, at most rate
Refilled(l, now) ==
    LET tokensToAdd == (now - l.lastUpdate) \div (l.duration \div l.rate)
    IN IF tokensToAdd > 0
       THEN [l EXCEPT !.tokens = Min(l.tokens + tokensToAdd, l.rate), !.lastUpdate = now]
       ELSE l

\* Limiter.Allow at time now: the answer and the Limiter after the call
Allow(l, now) ==
    LET r == Refilled(l, now)
    IN IF r.tokens > 0
       THEN [ok |-> TRUE, limiter |-> [r EXCEPT !.tokens = r.tokens - 1]]
       ELSE [ok |-> FALSE, limiter |-> r]

\* InitWebhook's fallback secret
DefaultSecret == "nncfebvjhebhjvrevjejrvhjelv"

\* variant: the configured secret is taken as it is
InitWebhookNoDefault(secret) == secret

\* InitWebhook: the package's webhookSecret for a configured secret
InitWebhook(secret) == IF secret = "" THEN DefaultSecret ELSE secret

\* the X-Hub-Signature-256 header a sender computes with key k over the body it
\* sends: "sha256=" and the HMAC of the body under k
Sign(k) == <<"sha256=", k>>

NoSignature == << >>

\* verifySignature(signature, body) under the package's webhookSecret
verifySignature(signature, webhookSecret) ==
    IF signature = NoSignature THEN FALSE
    ELSE IF webhookSecret = "" THEN TRUE
    ELSE signature = Sign(webhookSecret)

NoResponse == [request |-> << >>, allowed |-> FALSE, status |-> 0, changed |-> FALSE]

\* no hostname candidate derived
NoCandidate ==
    /\ assignee = NoProject
    /\ derived = Empty

\* no webhook request served yet
NoWebhook ==
    /\ cfgSecret = ""
    /\ limiter = WebhookLimiter
    /\ clock = 0
    /\ allowedAt = << >>
    /\ response = NoResponse

\* a handler goroutine of POST /webhooks/github with no request
IdlePush ==
    [pc |-> "idle", request |-> << >>, project |-> 0, sha |-> Empty, id |-> 0]

\* no webhook request in flight
NoPush == push = [h \in 1..MaxInflight |-> IdlePush]

NoEdge == NoCandidate /\ NoWebhook /\ NoPush


(***************************************************************************)
(* Record store.  A write that would break a unique index is rejected by   *)
(* the store and changes nothing; the callers below that do not look at    *)
(* the returned error carry on.                                            *)
(***************************************************************************)
NoRow == [id |-> 0, hostname |-> Empty, project |-> 0, deployment |-> 0, active |-> FALSE]

NoDeployment == [project |-> 0, status |-> "", hostname |-> Empty, image |-> Empty, sha |-> Empty]

DeploymentIDs == 1..Len(deployments)

HostnameIDs == 1..Len(hostnames)

\* variant: deployments.hostname declared without a unique index
DeploymentHostnameNoIndex(id, h) == TRUE

\* uniqueIndex on deployments.hostname (the empty string is a value like any other)
DeploymentHostnameFree(id, h) ==
    \A j \in DeploymentIDs : j # id => deployments[j].hostname # h

\* uniqueIndex on hostnames.hostname
HostnameFree(id, h) ==
    \A j \in HostnameIDs : j # id => hostnames[j].hostname # h

\* DB.Save(deployment): UPDATE of every column of the row with the struct's ID
SaveDeployment(id, row) ==
    IF DeploymentHostnameFree(id, row.hostname)
    THEN [deployments EXCEPT ![id] = row]
    ELSE deployments

\* DB.Model(&Deployment{}).Where("id = ?", id).Update("hostname", h)
UpdateDeploymentHostname(id, h) ==
    IF id \in DeploymentIDs /\ DeploymentHostnameFree(id, h)
    THEN [deployments EXCEPT ![id].hostname = h]
    ELSE deployments

\* What database.DB.Save does with a Deployment passed by value (not by address), the
\* preloaded Project filled in, is decided inside the ORM, whose code is not part of
\* the repository.  BuildDeployment never reads the result, so in a given build of
\* the program the call has one of three outcomes, the same at each of its three
\* places: the row is written; the call gives an error and writes nothing; the call
\* panics in the goroutine that runs BuildDeployment.
SaveByValueOutcomes == {"written", "error", "panic"}

\* database.DB.Save(deployment), the struct passed by value, when it does not panic
SaveDeploymentByValue(id, row) ==
    IF saveByValue = "written" THEN SaveDeployment(id, row) ELSE deployments

UpdateDeploymentStatusDropped(id, s) == deployments

\* DB.Model(&Deployment{}).Where("id = ?", id).Update("status", s)
UpdateDeploymentStatus(id, s) ==
    IF id \in DeploymentIDs
    THEN [deployments EXCEPT ![id].status = s]
    ELSE deployments

\* DB.Where("project_id = ? AND is_active = ?", p, true).First(&row): lowest ID first
FirstActiveHostname(p) ==
    LET hits == {i \in HostnameIDs : hostnames[i].project = p /\ hostnames[i].active}
    IN IF hits = {} THEN NoRow
       ELSE LET i == CHOOSE x \in hits : \A y \in hits : x <= y
            IN [id |-> i, hostname |-> hostnames[i].hostname, project |-> hostnames[i].project,
                deployment |-> hostnames[i].deployment, active |-> hostnames[i].active]

\* DB.Where("hostname = ?", h).First(&check).Error == nil
HostnameExists(h) == \E i \in HostnameIDs : hostnames[i].hostname = h

\* Update("is_active", false) Where project_id = p AND deployment_id != d AND is_active
DeactivateOthers(p, d) ==
    [i \in HostnameIDs |->
        IF hostnames[i].project = p /\ hostnames[i].deployment # d /\ hostnames[i].active
        THEN [hostnames[i] EXCEPT !.active = FALSE]
        ELSE hostnames[i]]

\* Update("is_active", false) Where project_id = p
DeactivateAll(p) ==
    [i \in HostnameIDs |->
        IF hostnames[i].project = p
        THEN [hostnames[i] EXCEPT !.active = FALSE]
        ELSE hostnames[i]]

\* variant: the save leaves the row's Deployment pointer as it was
SaveHostnameKeepsPointer(row) ==
    IF row.id \in HostnameIDs /\ HostnameFree(row.id, row.hostname)
    THEN [hostnames EXCEPT ![row.id] = [hostname |-> row.hostname, project |-> row.project,
                                        deployment |-> hostnames[row.id].deployment,
                                        active |-> row.active]]
    ELSE hostnames

\* DB.Save(&existingHostname): UPDATE of every column of the row with the struct's ID
SaveHostname(row) ==
    IF row.id \in HostnameIDs /\ HostnameFree(row.id, row.hostname)
    THEN [hostnames EXCEPT ![row.id] = [hostname |-> row.hostname, project |-> row.project,
                                        deployment |-> row.deployment, active |-> row.active]]
    ELSE hostnames

\* DB.Create(hostnameRecord)
CreateHostname(h, p, d) ==
    IF HostnameFree(0, h)
    THEN Append(hostnames, [hostname |-> h, project |-> p, deployment |-> d, active |-> TRUE])
    ELSE hostnames

(***************************************************************************)
(* Cluster resources are named from the Project, not the Deployment.       *)
(***************************************************************************)
\* fmt.Sprintf("project-%d", deployment.ProjectID)
DeploymentName(p) == <<"project", p>>

ImageTagShortPrefix(d, sha) ==
    <<"d", "e", "p", "l", "o", "y", "-">> \o Itoa(d) \o <<":">> \o SubSeq(sha, 1, 6)

\* fmt.Sprintf("deploy-%d:%s", deploymentID, deployment.CommitSHA[:7])
ImageTag(d, sha) ==
    <<"d", "e", "p", "l", "o", "y", "-">> \o Itoa(d) \o <<":">> \o SubSeq(sha, 1, 7)

\* commit ids a push can carry: a full id (8 characters stand for the 40) and a short one
FullCommit == <<"a", "b", "c", "d", "e", "f", "0", "1">>

ShortCommit == <<"a", "b", "c">>

Commits == {FullCommit, ShortCommit}

PutKeyDropped(f, k, v) == f

PutKey(f, k, v) == [x \in (DOMAIN f) \cup {k} |-> IF x = k THEN v ELSE f[x]]

DropKey(f, k) == [x \in (DOMAIN f) \ {k} |-> f[x]]

(***************************************************************************)
(* Workers.                                                                *)
(***************************************************************************)
IdleWorker ==
    [pc |-> "idle", job |-> 0, dep |-> NoDeployment, build |-> 0, hostname |-> Empty,
     existing |-> NoRow, original |-> Empty, counter |-> 0, storeErr |-> FALSE,
     err |-> ""]

\* NewInMemoryQueue and NewWorkerPool for a pool of n workers, before Start
NewQueueAndPool(n) ==
    /\ items = << >>
    /\ mu = FALSE
    /\ notify = << >>
    /\ qpool = 1..n
    /\ waiter = [w \in 1..n |-> "none"]
    /\ done = [w \in 1..n |-> FALSE]
    /\ ctxDone = FALSE
    /\ wgCount = 0
    /\ pw = [w \in 1..n |-> [pc |-> "notstarted", item |-> 0, rest |-> << >>, err |-> FALSE]]
    /\ enq = [c \in 1..MaxCallers |-> [pc |-> "idle", id |-> 0, seen |-> << >>]]
    /\ stop = "idle"
    /\ fatal = ""
    /\ enqueued = << >>
    /\ dequeued = << >>

\* The state after start-up: with a build service main sets up the queue and a pool
\* of PoolSize workers, with or without the publisher; without a Docker client there
\* is neither service nor queue.  A build service with no queue is what the webhook
\* package has after InitBuildService alone: handlePushEvent then starts one
\* goroutine per Deployment.
Init ==
    /\ deployments = << >>
    /\ builds = << >>
    /\ hostnames = << >>
    /\ queue = << >>
    /\ k8sDeployments = << >>
    /\ k8sServices = {}
    /\ k8sIngresses = << >>
    /\ buildQueue \in BOOLEAN
    /\ buildService \in (IF buildQueue THEN {TRUE} ELSE BOOLEAN)
    /\ saveByValue \in SaveByValueOutcomes
    /\ k8sConfigured \in (IF buildQueue THEN BOOLEAN ELSE {FALSE})
    /\ pool = IF buildQueue THEN 1..PoolSize
              ELSE IF buildService THEN 1..MaxDeployments ELSE {}
    /\ wk = [w \in pool |-> IdleWorker]
    /\ returned = {}
    /\ published = {}
    /\ finished = {}
    /\ cleanups = 0
    /\ faults = 0
    /\ projects = ProjectIDs
    /\ NewQueueAndPool(PoolSize)
    /\ rejected = 0
    /\ overlapped = {}
    /\ NoDetection
    /\ NoRequests
    /\ NoEdge

InitConc ==
    /\ deployments = << >>
    /\ builds = << >>
    /\ hostnames = << >>
    /\ queue = << >>
    /\ k8sDeployments = << >>
    /\ k8sServices = {}
    /\ k8sIngresses = << >>
    /\ k8sConfigured = TRUE
    /\ pool = 1..ConcWorkers
    /\ wk = [w \in pool |-> IdleWorker]
    /\ returned = {}
    /\ published = {}
    /\ finished = {}
    /\ cleanups = 0
    /\ faults = 0
    /\ projects = {p \in ProjectIDs : p <= ConcProjects}
    /\ NewQueueAndPool(PoolSize)
    /\ buildQueue = TRUE
    /\ buildService = TRUE
    /\ saveByValue \in SaveByValueOutcomes
    /\ rejected = 0
    /\ overlapped = {}
    /\ NoDetection
    /\ NoRequests
    /\ NoEdge

(***************************************************************************)
(* Ingestion: handlePushEvent for a push that passed validation and        *)
(* resolved to a Project.  The Deployment is created pending with an empty *)
(* hostname; when the store rejects the insert the handler answers 500     *)
(* and nothing is enqueued.  Between DB.Create and the hand-over to the    *)
(* queue the row exists and its id is in no queue.                         *)
(***************************************************************************)
\* requests that have resolved their Project and not yet run DB.Create
Creating == {h \in DOMAIN push : push[h].pc = "create"}

\* The Projects differ in the letter case of their slug only and fold to the same
\* hostname candidate: pushes name them in the order of their numbers, a Project
\* after every lower-numbered one has been pushed to.
InOrder(p) ==
    \A q \in projects : q < p =>
        \/ \E d \in DOMAIN deployments : deployments[d].project = q
        \/ \E g \in Creating : push[g].project = q

\* handler goroutines are interchangeable: a request takes the lowest free one
LowestIdle(h) == \A g \in DOMAIN push : push[g].pc = "idle" => h <= g

\* handlePushEvent: DB.Create(deployment); 500 and return when the store rejects it
PushCreate(h) ==
    /\ Running
    /\ push[h].pc = "create"
    /\ IF DeploymentHostnameFree(0, Empty)
       THEN /\ deployments' = Append(deployments,
                   [project |-> push[h].project, status |-> "pending", hostname |-> Empty,
                    image |-> Empty, sha |-> push[h].sha])
            /\ push' = [push EXCEPT ![h].pc = "enqueue", ![h].id = Len(deployments) + 1]
            /\ UNCHANGED <<rejected, response>>
       ELSE /\ rejected < MaxRejected
            /\ rejected' = rejected + 1
            /\ push' = [push EXCEPT ![h] = IdlePush]
            /\ response' = [request |-> push[h].request, allowed |-> TRUE, status |-> 500,
                            changed |-> FALSE]
            /\ UNCHANGED deployments
    /\ UNCHANGED <<builds, hostnames, queue, k8sDeployments, k8sServices, k8sIngresses,
                   k8sConfigured, pool, wk, returned, published, finished, cleanups, faults,
                   projects, qvars, buildQueue, overlapped, recipevars, projvars,
                   assignee, derived, cfgSecret, limiter, clock, allowedAt, buildService, saveByValue>>

\* handlePushEvent after DB.Create: buildQueue.Enqueue, or the direct build in a
\* goroutine of its own when only the build service is set, or neither; then 200
PushEnqueue(h) ==
    /\ Running
    /\ push[h].pc = "enqueue"
    /\ IF buildQueue
       THEN /\ queue' = Append(queue, push[h].id)
            /\ UNCHANGED wk
       ELSE IF buildService
       THEN /\ wk' = [wk EXCEPT ![push[h].id] =
                         [IdleWorker EXCEPT !.pc = "bd_load", !.job = push[h].id]]
            /\ UNCHANGED queue
       ELSE UNCHANGED <<queue, wk>>
    /\ push' = [push EXCEPT ![h] = IdlePush]
    /\ response' = [request |-> push[h].request, allowed |-> TRUE, status |-> 200,
                    changed |-> TRUE]
    /\ UNCHANGED <<deployments, builds, hostnames, k8sDeployments, k8sServices,
                   k8sIngresses, k8sConfigured, pool, returned, published, finished,
                   cleanups, faults, projects, qvars, buildQueue, rejected, overlapped,
                   recipevars, projvars,
                   assignee, derived, cfgSecret, limiter, clock, allowedAt, buildService, saveByValue>>

\* a push for Project p with head commit sha that the webhook route let through
Push(h, p, sha) ==
    /\ Running
    /\ push[h].pc = "idle"
    /\ LowestIdle(h)
    /\ InOrder(p)
    /\ Len(deployments) + Cardinality(Creating) < MaxDeployments
    /\ push' = [push EXCEPT ![h] = [IdlePush EXCEPT !.pc = "create", !.project = p,
                                                     !.sha = sha]]
    /\ UNCHANGED <<corevars, qvars, recipevars, projvars,
                   assignee, derived, cfgSecret, limiter, clock, allowedAt, response,
                   buildService, saveByValue>>

(***************************************************************************)
(* WorkerPool.worker: Dequeue, then BuildDeployment.                       *)
(***************************************************************************)
DequeueKeepsHead(w) ==
    /\ Running
    /\ wk[w].pc = "idle"
    /\ queue # << >>
    /\ wk' = [wk EXCEPT ![w] = [IdleWorker EXCEPT !.pc = "bd_load", !.job = Head(queue)]]
    /\ UNCHANGED <<deployments, builds, hostnames, queue, k8sDeployments, k8sServices,
                   k8sIngresses, k8sConfigured, pool, returned, published, finished, cleanups,
                   faults, projects, qvars, buildQueue, rejected, overlapped, recipevars,
                   projvars, edgevars>>

\* The idle workers are all blocked in the same Dequeue call and differ in nothing
\* but their number: the job goes to the lowest-numbered of them.
Dequeue(w) ==
    /\ Running
    /\ wk[w].pc = "idle"
    /\ \A v \in pool : wk[v].pc = "idle" => w <= v
    /\ queue # << >>
    /\ wk' = [wk EXCEPT ![w] = [IdleWorker EXCEPT !.pc = "bd_load", !.job = Head(queue)]]
    /\ queue' = Tail(queue)
    /\ UNCHANGED <<deployments, builds, hostnames, k8sDeployments, k8sServices,
                   k8sIngresses, k8sConfigured, pool, returned, published, finished, cleanups, faults, projects, qvars, buildQueue, rejected, overlapped, recipevars, projvars, edgevars>>

\* BuildDeployment: load the Deployment, create its Build record
BeginBuild(w) ==
    /\ Running
    /\ wk[w].pc = "bd_load"
    /\ builds' = Append(builds, [deployment |-> wk[w].job, status |-> "building", logs |-> ""])
    /\ wk' = [wk EXCEPT ![w].dep = deployments[wk[w].job],
                        ![w].build = Len(builds) + 1,
                        ![w].pc = "bd_build"]
    /\ UNCHANGED <<deployments, hostnames, queue, k8sDeployments, k8sServices,
                   k8sIngresses, k8sConfigured, pool, returned, published, finished, cleanups, faults, projects, qvars, buildQueue, rejected, overlapped, recipevars, projvars, edgevars>>

BuildOutcomes == {"ok", "failed to clone repository", "could not detect project type",
                  "build context error", "image build error"}

\* BuildDeployment: clone, recipe detection, build context, image build
RunBuild(w, outcome) ==
    /\ Running
    /\ wk[w].pc = "bd_build"
    /\ IF outcome \notin {"failed to clone repository", "could not detect project type"}
          /\ Len(wk[w].dep.sha) < 7
       THEN \* deployment.CommitSHA[:7] panics in the worker goroutine: the process ends
            /\ fatal' = "BuildDeployment"
            /\ UNCHANGED <<wk, builds, faults>>
       ELSE IF outcome = "ok"
       THEN /\ wk' = [wk EXCEPT ![w].pc = "bd_saveBuild"]
            /\ UNCHANGED <<builds, faults, fatal>>
       ELSE /\ faults < MaxFaults
            /\ faults' = faults + 1
            /\ builds' = [builds EXCEPT ![wk[w].build].status = "failed",
                                        ![wk[w].build].logs = outcome]
            /\ wk' = [wk EXCEPT ![w].err = outcome, ![w].pc = "wk_fail"]
            /\ UNCHANGED fatal
    /\ UNCHANGED <<deployments, hostnames, queue, k8sDeployments, k8sServices,
                   k8sIngresses, k8sConfigured, pool, returned, published, finished, cleanups,
                   projects, qvarsButFatal, buildQueue, rejected, overlapped, recipevars,
                   projvars, edgevars>>

\* BuildDeployment: build.Status = "success"; DB.Save(build)
SaveBuildSuccess(w) ==
    /\ Running
    /\ wk[w].pc = "bd_saveBuild"
    /\ builds' = [builds EXCEPT ![wk[w].build].status = "success"]
    /\ wk' = [wk EXCEPT ![w].pc = "bd_saveDeploying"]
    /\ UNCHANGED <<deployments, hostnames, queue, k8sDeployments, k8sServices,
                   k8sIngresses, k8sConfigured, pool, returned, published, finished, cleanups, faults, projects, qvars, buildQueue, rejected, overlapped, recipevars, projvars, edgevars>>

\* worker w is inside deployToKubernetes (hostname allocation or publish)
InDeploy(w) ==
    wk[w].pc \notin {"idle", "bd_load", "bd_build", "bd_saveBuild", "bd_saveDeploying",
                     "bd_saveDeployed", "bd_saveFailed", "wk_fail"}

\* BuildDeployment: s.k8sClient != nil && s.hostnameMgr != nil
PublisherAvailable == k8sConfigured

\* BuildDeployment: deployment.Status = "deploying", deployment.ImageTag = imageTag,
\* DB.Save(deployment) by value, result unread; a panic ends the process; otherwise
\* the local struct carries both fields on, and without a publisher the call
\* returns nil here
SaveDeploying(w) ==
    /\ Running
    /\ wk[w].pc = "bd_saveDeploying"
    /\ IF saveByValue = "panic"
       THEN /\ fatal' = "DB.Save"
            /\ UNCHANGED <<deployments, wk, overlapped, finished>>
       ELSE LET row == [wk[w].dep EXCEPT !.status = "deploying",
                                         !.image = ImageTag(wk[w].job, wk[w].dep.sha)]
            IN /\ deployments' = SaveDeploymentByValue(wk[w].job, row)
               /\ UNCHANGED fatal
               /\ IF PublisherAvailable
                  THEN /\ wk' = [wk EXCEPT ![w].dep = row, ![w].pc = "ah_find"]
                       /\ overlapped' = overlapped \cup
                              {{wk[w].job, wk[o].job} : o \in {x \in pool \ {w} : InDeploy(x)}}
                       /\ UNCHANGED finished
                  ELSE /\ wk' = [wk EXCEPT ![w] = IdleWorker]
                       /\ finished' = finished \cup {<<wk[w].job, "">>}
                       /\ UNCHANGED overlapped
    /\ UNCHANGED <<builds, hostnames, queue, k8sDeployments, k8sServices,
                   k8sIngresses, k8sConfigured, pool, returned, published, cleanups, faults,
                   projects, qvarsButFatal, buildQueue, rejected, recipevars, projvars,
                   edgevars>>

(***************************************************************************)
(* Manager.AssignHostname(projectID, deploymentID), one store call a step. *)
(***************************************************************************)
\* load the Project, derive the candidate, look for the Project's active row
AssignFind(w) ==
    /\ Running
    /\ wk[w].pc = "ah_find"
    /\ LET p == wk[w].dep.project
           candidate == GenerateProjectHostname(ProjectSlugOf(Projects[p]))
           found == FirstActiveHostname(p)
       IN wk' = [wk EXCEPT ![w].hostname = candidate,
                           ![w].existing = found,
                           ![w].original = IF found.id = 0 THEN candidate ELSE Empty,
                           ![w].counter = 0,
                           ![w].storeErr = FALSE,
                           ![w].pc = IF found.id # 0 THEN "ah_deact" ELSE "ah_probe"]
    /\ UNCHANGED <<deployments, builds, hostnames, queue, k8sDeployments, k8sServices,
                   k8sIngresses, k8sConfigured, pool, returned, published, finished, cleanups, faults, projects, qvars, buildQueue, rejected, overlapped, recipevars, projvars, edgevars>>

\* reuse branch: deactivate the Project's active rows that point at another Deployment
AssignDeactivateOthers(w) ==
    /\ Running
    /\ wk[w].pc = "ah_deact"
    /\ hostnames' = DeactivateOthers(wk[w].dep.project, wk[w].job)
    /\ wk' = [wk EXCEPT ![w].pc = "ah_save"]
    /\ UNCHANGED <<deployments, builds, queue, k8sDeployments, k8sServices,
                   k8sIngresses, k8sConfigured, pool, returned, published, finished, cleanups, faults, projects, qvars, buildQueue, rejected, overlapped, recipevars, projvars, edgevars>>

\* reuse branch: point the row found at this Deployment, active again, and save it
AssignSaveExisting(w) ==
    /\ Running
    /\ wk[w].pc = "ah_save"
    /\ LET row == [wk[w].existing EXCEPT !.deployment = wk[w].job, !.active = TRUE]
       IN /\ hostnames' = SaveHostname(row)
          /\ wk' = [wk EXCEPT ![w].existing = row,
                              ![w].storeErr = wk[w].storeErr \/ ~HostnameFree(row.id, row.hostname),
                              ![w].pc = "ah_updateReuse"]
    /\ UNCHANGED <<deployments, builds, queue, k8sDeployments, k8sServices,
                   k8sIngresses, k8sConfigured, pool, returned, published, finished, cleanups, faults, projects, qvars, buildQueue, rejected, overlapped, recipevars, projvars, edgevars>>

\* new branch: one iteration of the uniqueness probe loop
AssignProbe(w) ==
    /\ Running
    /\ wk[w].pc = "ah_probe"
    /\ IF HostnameExists(wk[w].hostname)
       THEN wk' = [wk EXCEPT ![w].counter = wk[w].counter + 1,
                             ![w].hostname = SuffixedHostname(wk[w].original, wk[w].counter + 1)]
       ELSE wk' = [wk EXCEPT ![w].pc = "ah_deactAll"]
    /\ UNCHANGED <<deployments, builds, hostnames, queue, k8sDeployments, k8sServices,
                   k8sIngresses, k8sConfigured, pool, returned, published, finished, cleanups, faults, projects, qvars, buildQueue, rejected, overlapped, recipevars, projvars, edgevars>>

\* new branch: deactivate every row of the Project
AssignDeactivateAll(w) ==
    /\ Running
    /\ wk[w].pc = "ah_deactAll"
    /\ hostnames' = DeactivateAll(wk[w].dep.project)
    /\ wk' = [wk EXCEPT ![w].pc = "ah_create"]
    /\ UNCHANGED <<deployments, builds, queue, k8sDeployments, k8sServices,
                   k8sIngresses, k8sConfigured, pool, returned, published, finished, cleanups, faults, projects, qvars, buildQueue, rejected, overlapped, recipevars, projvars, edgevars>>

\* new branch: create the Hostname row
AssignCreate(w) ==
    /\ Running
    /\ wk[w].pc = "ah_create"
    /\ hostnames' = CreateHostname(wk[w].hostname, wk[w].dep.project, wk[w].job)
    /\ wk' = [wk EXCEPT ![w].storeErr = wk[w].storeErr \/ ~HostnameFree(0, wk[w].hostname),
                        ![w].pc = "ah_updateNew"]
    /\ UNCHANGED <<deployments, builds, queue, k8sDeployments, k8sServices,
                   k8sIngresses, k8sConfigured, pool, returned, published, finished, cleanups, faults, projects, qvars, buildQueue, rejected, overlapped, recipevars, projvars, edgevars>>

\* Update("hostname", hostname) on the Deployment record, then return (hostname, nil)
WriteHostnameAndReturn(w) ==
    /\ Running
    /\ deployments' = UpdateDeploymentHostname(wk[w].job, wk[w].hostname)
    /\ wk' = [wk EXCEPT ![w].storeErr = wk[w].storeErr
                                          \/ ~DeploymentHostnameFree(wk[w].job, wk[w].hostname),
                        ![w].pc = "dk_save"]
    /\ returned' = returned \cup {<<wk[w].dep.project, wk[w].job, wk[w].hostname>>}
    /\ UNCHANGED <<builds, hostnames, queue, k8sDeployments, k8sServices,
                   k8sIngresses, k8sConfigured, pool, published, finished, cleanups, faults, projects, qvars, buildQueue, rejected, overlapped, recipevars, projvars, edgevars>>

\* reuse branch: update the Deployment record, return the hostname
AssignReturnReuse(w) ==
    /\ wk[w].pc = "ah_updateReuse"
    /\ WriteHostnameAndReturn(w)

\* new branch: update the Deployment record, return the hostname
AssignReturnNew(w) ==
    /\ wk[w].pc = "ah_updateNew"
    /\ WriteHostnameAndReturn(w)

(***************************************************************************)
(* Service.deployToKubernetes and Client.CreateOrUpdateDeployment.         *)
(***************************************************************************)
\* deployment.Hostname = hostname; DB.Save(deployment)
DeploySaveHostname(w) ==
    /\ Running
    /\ wk[w].pc = "dk_save"
    /\ LET row == [wk[w].dep EXCEPT !.hostname = wk[w].hostname]
       IN /\ deployments' = SaveDeployment(wk[w].job, row)
          /\ wk' = [wk EXCEPT ![w].dep = row, ![w].pc = "k8s_deployment"]
    /\ UNCHANGED <<builds, hostnames, queue, k8sDeployments, k8sServices,
                   k8sIngresses, k8sConfigured, pool, returned, published, finished, cleanups, faults, projects, qvars, buildQueue, rejected, overlapped, recipevars, projvars, edgevars>>

ApiOutcomes == {"ok", "error"}

\* Deployments(namespace).Create: any error, a name conflict included, is returned
PublishDeployment(w, create) ==
    /\ Running
    /\ wk[w].pc = "k8s_deployment"
    /\ LET name == DeploymentName(wk[w].dep.project)
       IN IF create = "error"
          THEN /\ faults < MaxFaults
               /\ faults' = faults + 1
               /\ wk' = [wk EXCEPT ![w].err = "create deployment failed",
                                   ![w].pc = "bd_saveFailed"]
               /\ UNCHANGED k8sDeployments
          ELSE IF name \in DOMAIN k8sDeployments
          THEN /\ wk' = [wk EXCEPT ![w].err = "deployment already exists",
                                   ![w].pc = "bd_saveFailed"]
               /\ UNCHANGED <<k8sDeployments, faults>>
          ELSE /\ k8sDeployments' = PutKey(k8sDeployments, name, wk[w].dep.image)
               /\ wk' = [wk EXCEPT ![w].pc = "k8s_service"]
               /\ UNCHANGED faults
    /\ UNCHANGED <<deployments, builds, hostnames, queue, k8sServices,
                   k8sIngresses, k8sConfigured, pool, returned, published, finished, cleanups, projects, qvars, buildQueue, rejected, overlapped, recipevars, projvars, edgevars>>

\* Services(namespace).Create, on a name conflict Update
PublishService(w, create, update) ==
    /\ Running
    /\ wk[w].pc = "k8s_service"
    /\ LET name == DeploymentName(wk[w].dep.project)
       IN IF create = "error"
          THEN /\ faults < MaxFaults
               /\ faults' = faults + 1
               /\ wk' = [wk EXCEPT ![w].err = "failed to create service",
                                   ![w].pc = "bd_saveFailed"]
               /\ UNCHANGED k8sServices
          ELSE IF name \in k8sServices /\ update = "error"
          THEN /\ faults < MaxFaults
               /\ faults' = faults + 1
               /\ wk' = [wk EXCEPT ![w].err = "failed to update service",
                                   ![w].pc = "bd_saveFailed"]
               /\ UNCHANGED k8sServices
          ELSE /\ k8sServices' = k8sServices \cup {name}
               /\ wk' = [wk EXCEPT ![w].pc = "k8s_ingress"]
               /\ UNCHANGED faults
    /\ UNCHANGED <<deployments, builds, hostnames, queue, k8sDeployments,
                   k8sIngresses, k8sConfigured, pool, returned, published, finished, cleanups, projects, qvars, buildQueue, rejected, overlapped, recipevars, projvars, edgevars>>

\* Ingresses(namespace).Create, on a name conflict Update; then deployToKubernetes returns nil
PublishIngress(w, create, update) ==
    /\ Running
    /\ wk[w].pc = "k8s_ingress"
    /\ LET name == DeploymentName(wk[w].dep.project)
       IN IF create = "error"
          THEN /\ faults < MaxFaults
               /\ faults' = faults + 1
               /\ wk' = [wk EXCEPT ![w].err = "failed to create ingress",
                                   ![w].pc = "bd_saveFailed"]
               /\ UNCHANGED <<k8sIngresses, published>>
          ELSE IF name \in DOMAIN k8sIngresses /\ update = "error"
          THEN /\ faults < MaxFaults
               /\ faults' = faults + 1
               /\ wk' = [wk EXCEPT ![w].err = "failed to update ingress",
                                   ![w].pc = "bd_saveFailed"]
               /\ UNCHANGED <<k8sIngresses, published>>
          ELSE /\ k8sIngresses' = PutKey(k8sIngresses, name, wk[w].hostname)
               /\ published' = published \cup {wk[w].job}
               /\ wk' = [wk EXCEPT ![w].pc = "bd_saveDeployed"]
               /\ UNCHANGED faults
    /\ UNCHANGED <<deployments, builds, hostnames, queue, k8sDeployments,
                   k8sServices, k8sConfigured, pool, returned, finished, cleanups, projects, qvars, buildQueue, rejected, overlapped, recipevars, projvars, edgevars>>

SaveDeployedThenMarkedFailed(w) ==
    /\ Running
    /\ wk[w].pc = "bd_saveDeployed"
    /\ deployments' = SaveDeploymentByValue(wk[w].job, [wk[w].dep EXCEPT !.status = "deployed"])
    /\ wk' = [wk EXCEPT ![w].err = "marked", ![w].pc = "wk_fail"]
    /\ UNCHANGED <<builds, hostnames, queue, k8sDeployments, k8sServices, k8sIngresses,
                   k8sConfigured, pool, returned, published, finished, cleanups, faults,
                   projects, qvars, buildQueue, rejected, overlapped, recipevars, projvars, edgevars>>

\* BuildDeployment: deployment.Status = "deployed"; DB.Save(deployment) by value,
\* result unread; a panic ends the process, otherwise return nil
SaveDeployed(w) ==
    /\ Running
    /\ wk[w].pc = "bd_saveDeployed"
    /\ IF saveByValue = "panic"
       THEN /\ fatal' = "DB.Save"
            /\ UNCHANGED <<deployments, wk, finished>>
       ELSE /\ deployments' = SaveDeploymentByValue(wk[w].job,
                                   [wk[w].dep EXCEPT !.status = "deployed"])
            /\ wk' = [wk EXCEPT ![w] = IdleWorker]
            /\ finished' = finished \cup {<<wk[w].job, "">>}
            /\ UNCHANGED fatal
    /\ UNCHANGED <<builds, hostnames, queue, k8sDeployments, k8sServices,
                   k8sIngresses, k8sConfigured, pool, returned, published, cleanups, faults,
                   projects, qvarsButFatal, buildQueue, rejected, overlapped, recipevars,
                   projvars, edgevars>>

\* BuildDeployment: deployment.Status = "failed"; DB.Save(deployment) by value,
\* result unread; a panic ends the process, otherwise return the error
SaveFailed(w) ==
    /\ Running
    /\ wk[w].pc = "bd_saveFailed"
    /\ IF saveByValue = "panic"
       THEN /\ fatal' = "DB.Save"
            /\ UNCHANGED <<deployments, wk>>
       ELSE LET row == [wk[w].dep EXCEPT !.status = "failed"]
            IN /\ deployments' = SaveDeploymentByValue(wk[w].job, row)
               /\ wk' = [wk EXCEPT ![w].dep = row, ![w].pc = "wk_fail"]
               /\ UNCHANGED fatal
    /\ UNCHANGED <<builds, hostnames, queue, k8sDeployments, k8sServices,
                   k8sIngresses, k8sConfigured, pool, returned, published, finished, cleanups,
                   faults, projects, qvarsButFatal, buildQueue, rejected, overlapped,
                   recipevars, projvars, edgevars>>

\* worker: BuildDeployment returned an error: Update("status", "failed")
WorkerMarkFailed(w) ==
    /\ Running
    /\ wk[w].pc = "wk_fail"
    /\ deployments' = UpdateDeploymentStatus(wk[w].job, "failed")
    /\ wk' = [wk EXCEPT ![w] = IdleWorker]
    /\ finished' = finished \cup {<<wk[w].job, wk[w].err>>}
    /\ UNCHANGED <<builds, hostnames, queue, k8sDeployments, k8sServices,
                   k8sIngresses, k8sConfigured, pool, returned, published, cleanups, faults, projects, qvars, buildQueue, rejected, overlapped, recipevars, projvars, edgevars>>

(***************************************************************************)
(* Environment: the cluster operator removes a Project's resources         *)
(* (the reconciliation the publisher leaves to the operator).              *)
(***************************************************************************)
OperatorCleanup(p) ==
    /\ Running
    /\ cleanups < MaxCleanups
    /\ DeploymentName(p) \in DOMAIN k8sDeployments
    /\ k8sDeployments' = DropKey(k8sDeployments, DeploymentName(p))
    /\ k8sServices' = k8sServices \ {DeploymentName(p)}
    /\ k8sIngresses' = DropKey(k8sIngresses, DeploymentName(p))
    /\ cleanups' = cleanups + 1
    /\ UNCHANGED <<deployments, builds, hostnames, queue, k8sConfigured, pool, wk,
                   returned, published, finished, faults, projects, qvars, buildQueue, rejected, overlapped, recipevars, projvars, edgevars>>

Next ==
    \/ \E h \in DOMAIN push : \E p \in projects : \E sha \in Commits : Push(h, p, sha)
    \/ \E h \in DOMAIN push : PushCreate(h)
    \/ \E h \in DOMAIN push : PushEnqueue(h)
    \/ \E w \in pool : Dequeue(w)
    \/ \E w \in pool : BeginBuild(w)
    \/ \E w \in pool : \E outcome \in BuildOutcomes : RunBuild(w, outcome)
    \/ \E w \in pool : SaveBuildSuccess(w)
    \/ \E w \in pool : SaveDeploying(w)
    \/ \E w \in pool : AssignFind(w)
    \/ \E w \in pool : AssignDeactivateOthers(w)
    \/ \E w \in pool : AssignSaveExisting(w)
    \/ \E w \in pool : AssignProbe(w)
    \/ \E w \in pool : AssignDeactivateAll(w)
    \/ \E w \in pool : AssignCreate(w)
    \/ \E w \in pool : AssignReturnReuse(w)
    \/ \E w \in pool : AssignReturnNew(w)
    \/ \E w \in pool : DeploySaveHostname(w)
    \/ \E w \in pool : \E create \in ApiOutcomes : PublishDeployment(w, create)
    \/ \E w \in pool : \E create, update \in ApiOutcomes : PublishService(w, create, update)
    \/ \E w \in pool : \E create, update \in ApiOutcomes : PublishIngress(w, create, update)
    \/ \E w \in pool : SaveDeployed(w)
    \/ \E w \in pool : SaveFailed(w)
    \/ \E w \in pool : WorkerMarkFailed(w)
    \/ \E p \in projects : OperatorCleanup(p)

Spec == Init /\ [][Next]_vars

SpecConc == InitConc /\ [][Next]_vars

(***************************************************************************)
(* InMemoryQueue.Enqueue / Dequeue, WorkerPool.Start / Stop / worker, one  *)
(* step per synchronisation call.  After a fatal error nothing runs.       *)
(***************************************************************************)
PrependItem(q, id) == <<id>> \o q

\* q.items = append(q.items, deploymentID)
AppendItem(q, id) == Append(q, id)

\* Enqueue is called with an id not handed in before
EnqueueCall(c, id) ==
    /\ Running
    /\ enq[c].pc = "idle"
    /\ \A k \in DOMAIN enq : enq[k].id # id
    /\ id \notin {enqueued[i] : i \in DOMAIN enqueued}
    /\ enq' = [enq EXCEPT ![c] = [pc |-> "lock", id |-> id, seen |-> << >>]]
    /\ UNCHANGED <<items, mu, notify, waiter, done, ctxDone, wgCount, pw, stop, fatal,
                   qpool, enqueued, dequeued, corevars, recipevars, projvars, edgevars>>

\* Enqueue: q.mu.Lock()
EnqueueLock(c) ==
    /\ Running
    /\ enq[c].pc = "lock"
    /\ ~mu
    /\ mu' = TRUE
    /\ enq' = [enq EXCEPT ![c].pc = "locked"]
    /\ UNCHANGED <<items, notify, waiter, done, ctxDone, wgCount, pw, stop, fatal,
                   qpool, enqueued, dequeued, corevars, recipevars, projvars, edgevars>>

\* Enqueue: append(q.items, deploymentID) reads the slice q.items
EnqueueLoad(c) ==
    /\ Running
    /\ enq[c].pc = "locked"
    /\ enq' = [enq EXCEPT ![c].pc = "append", ![c].seen = items]
    /\ UNCHANGED <<items, mu, notify, waiter, done, ctxDone, wgCount, pw, stop, fatal,
                   qpool, enqueued, dequeued, corevars, recipevars, projvars, edgevars>>

\* Enqueue: q.items is assigned the slice read with the id appended, then
\* q.cond.Signal() wakes the longest-waiting waiter, if any
EnqueueAppend(c) ==
    /\ Running
    /\ enq[c].pc = "append"
    /\ items' = AppendItem(enq[c].seen, enq[c].id)
    /\ enqueued' = Append(enqueued, enq[c].id)
    /\ IF notify # << >>
       THEN /\ waiter' = [waiter EXCEPT ![Head(notify)] = "woken"]
            /\ notify' = Tail(notify)
       ELSE UNCHANGED <<waiter, notify>>
    /\ enq' = [enq EXCEPT ![c].pc = "unlock", ![c].seen = << >>]
    /\ UNCHANGED <<mu, done, ctxDone, wgCount, pw, stop, fatal, qpool, dequeued, corevars, recipevars, projvars, edgevars>>

\* Enqueue: the deferred q.mu.Unlock(), then return nil
EnqueueReturn(c) ==
    /\ Running
    /\ enq[c].pc = "unlock"
    /\ IF mu
       THEN /\ mu' = FALSE
            /\ enq' = [enq EXCEPT ![c] = [pc |-> "idle", id |-> 0, seen |-> << >>]]
            /\ UNCHANGED fatal
       ELSE /\ fatal' = "Enqueue"
            /\ UNCHANGED <<mu, enq>>
    /\ UNCHANGED <<items, notify, waiter, done, ctxDone, wgCount, pw, stop,
                   qpool, enqueued, dequeued, corevars, recipevars, projvars, edgevars>>

\* Size is called
SizeCall(c) ==
    /\ Running
    /\ enq[c].pc = "idle"
    /\ enq' = [enq EXCEPT ![c].pc = "sz_lock"]
    /\ UNCHANGED <<items, mu, notify, waiter, done, ctxDone, wgCount, pw, stop, fatal,
                   qpool, enqueued, dequeued, corevars, recipevars, projvars, edgevars>>

\* Size: q.mu.Lock()
SizeLock(c) ==
    /\ Running
    /\ enq[c].pc = "sz_lock"
    /\ ~mu
    /\ mu' = TRUE
    /\ enq' = [enq EXCEPT ![c].pc = "sz_read"]
    /\ UNCHANGED <<items, notify, waiter, done, ctxDone, wgCount, pw, stop, fatal,
                   qpool, enqueued, dequeued, corevars, recipevars, projvars, edgevars>>

\* Size: len(q.items) is read
SizeRead(c) ==
    /\ Running
    /\ enq[c].pc = "sz_read"
    /\ enq' = [enq EXCEPT ![c].pc = "sz_unlock", ![c].seen = items]
    /\ UNCHANGED <<items, mu, notify, waiter, done, ctxDone, wgCount, pw, stop, fatal,
                   qpool, enqueued, dequeued, corevars, recipevars, projvars, edgevars>>

\* Size: the deferred q.mu.Unlock(), then the length read is returned
SizeReturn(c) ==
    /\ Running
    /\ enq[c].pc = "sz_unlock"
    /\ IF mu
       THEN /\ mu' = FALSE
            /\ enq' = [enq EXCEPT ![c] = [pc |-> "idle", id |-> 0, seen |-> << >>]]
            /\ UNCHANGED fatal
       ELSE /\ fatal' = "Size"
            /\ UNCHANGED <<mu, enq>>
    /\ UNCHANGED <<items, notify, waiter, done, ctxDone, wgCount, pw, stop,
                   qpool, enqueued, dequeued, corevars, recipevars, projvars, edgevars>>

\* WorkerPool.Start: wg.Add(1) and go wp.worker(i) for every worker
PoolStart ==
    /\ Running
    /\ \A w \in qpool : pw[w].pc = "notstarted"
    /\ wgCount' = Cardinality(qpool)
    /\ pw' = [w \in qpool |-> [pw[w] EXCEPT !.pc = "top"]]
    /\ UNCHANGED <<items, mu, notify, waiter, done, ctxDone, enq, stop, fatal,
                   qpool, enqueued, dequeued, corevars, recipevars, projvars, edgevars>>

\* worker: select { case <-wp.ctx.Done(): return; default: Dequeue }
WorkerSelect(w) ==
    /\ Running
    /\ pw[w].pc = "top"
    /\ pw' = [pw EXCEPT ![w].pc = IF ctxDone THEN "exit" ELSE "dq_lock"]
    /\ UNCHANGED <<items, mu, notify, waiter, done, ctxDone, wgCount, enq, stop, fatal,
                   qpool, enqueued, dequeued, corevars, recipevars, projvars, edgevars>>

\* Dequeue: q.mu.Lock()
DequeueLock(w) ==
    /\ Running
    /\ pw[w].pc = "dq_lock"
    /\ ~mu
    /\ mu' = TRUE
    /\ pw' = [pw EXCEPT ![w].pc = "dq_loop"]
    /\ UNCHANGED <<items, notify, waiter, done, ctxDone, wgCount, enq, stop, fatal,
                   qpool, enqueued, dequeued, corevars, recipevars, projvars, edgevars>>

\* Dequeue: the loop test len(q.items) == 0; empty: spawn the waiter goroutine
DequeueLoop(w) ==
    /\ Running
    /\ pw[w].pc = "dq_loop"
    /\ IF items = << >>
       THEN /\ waiter' = [waiter EXCEPT ![w] = "spawned"]
            /\ done' = [done EXCEPT ![w] = FALSE]
            /\ pw' = [pw EXCEPT ![w].pc = "dq_select"]
       ELSE /\ pw' = [pw EXCEPT ![w].pc = "dq_item"]
            /\ UNCHANGED <<waiter, done>>
    /\ UNCHANGED <<items, mu, notify, ctxDone, wgCount, enq, stop, fatal, qpool, enqueued,
                   dequeued, corevars, recipevars, projvars, edgevars>>

\* Dequeue: item := q.items[0]; on an empty slice the index panics, which nothing
\* recovers
DequeueItem(w) ==
    /\ Running
    /\ pw[w].pc = "dq_item"
    /\ IF items = << >>
       THEN /\ fatal' = "index out of range"
            /\ UNCHANGED pw
       ELSE /\ pw' = [pw EXCEPT ![w].pc = "dq_slice", ![w].item = Head(items)]
            /\ UNCHANGED fatal
    /\ UNCHANGED <<items, mu, notify, waiter, done, ctxDone, wgCount, enq, stop,
                   qpool, enqueued, dequeued, corevars, recipevars, projvars, edgevars>>

\* Dequeue: q.items[1:] reads the slice q.items; on an empty slice it panics
DequeueSlice(w) ==
    /\ Running
    /\ pw[w].pc = "dq_slice"
    /\ IF items = << >>
       THEN /\ fatal' = "slice bounds out of range"
            /\ UNCHANGED pw
       ELSE /\ pw' = [pw EXCEPT ![w].pc = "dq_store", ![w].rest = Tail(items)]
            /\ UNCHANGED fatal
    /\ UNCHANGED <<items, mu, notify, waiter, done, ctxDone, wgCount, enq, stop,
                   qpool, enqueued, dequeued, corevars, recipevars, projvars, edgevars>>

\* Dequeue: q.items is assigned the rest of the slice read
DequeueStore(w) ==
    /\ Running
    /\ pw[w].pc = "dq_store"
    /\ items' = pw[w].rest
    /\ dequeued' = Append(dequeued,
                       [worker |-> w, id |-> pw[w].item, pending |-> Len(pw[w].rest) + 1])
    /\ pw' = [pw EXCEPT ![w].pc = "dq_return", ![w].rest = << >>]
    /\ UNCHANGED <<mu, notify, waiter, done, ctxDone, wgCount, enq, stop, fatal, qpool,
                   enqueued, corevars, recipevars, projvars, edgevars>>

\* Dequeue: select on ctx.Done() and done; Go picks at random among the ready cases
DequeueSelect(w, branch) ==
    /\ Running
    /\ pw[w].pc = "dq_select"
    /\ \/ /\ branch = "ctx"
          /\ ctxDone
          /\ pw' = [pw EXCEPT ![w] = [pc |-> "dq_return", item |-> 0, rest |-> << >>, err |-> TRUE]]
       \/ /\ branch = "done"
          /\ done[w]
          /\ pw' = [pw EXCEPT ![w].pc = "dq_loop"]
    /\ UNCHANGED <<items, mu, notify, waiter, done, ctxDone, wgCount, enq, stop, fatal,
                   qpool, enqueued, dequeued, corevars, recipevars, projvars, edgevars>>

\* Dequeue: the deferred q.mu.Unlock(), then the return; worker: on context.Canceled return
DequeueReturn(w) ==
    /\ Running
    /\ pw[w].pc = "dq_return"
    /\ IF mu
       THEN /\ mu' = FALSE
            /\ pw' = [pw EXCEPT ![w].pc = IF pw[w].err THEN "exit" ELSE "build"]
            /\ UNCHANGED fatal
       ELSE /\ fatal' = "Dequeue"
            /\ UNCHANGED <<mu, pw>>
    /\ UNCHANGED <<items, notify, waiter, done, ctxDone, wgCount, enq, stop,
                   qpool, enqueued, dequeued, corevars, recipevars, projvars, edgevars>>

\* worker: BuildDeployment for the dequeued id returns, with or without an error
WorkerBuild(w) ==
    /\ Running
    /\ pw[w].pc = "build"
    /\ pw' = [pw EXCEPT ![w] = [pc |-> "top", item |-> 0, rest |-> << >>, err |-> FALSE]]
    /\ UNCHANGED <<items, mu, notify, waiter, done, ctxDone, wgCount, enq, stop, fatal,
                   qpool, enqueued, dequeued, corevars, recipevars, projvars, edgevars>>

\* worker: the deferred wp.wg.Done()
WorkerDone(w) ==
    /\ Running
    /\ pw[w].pc = "exit"
    /\ wgCount' = wgCount - 1
    /\ pw' = [pw EXCEPT ![w].pc = "returned"]
    /\ UNCHANGED <<items, mu, notify, waiter, done, ctxDone, enq, stop, fatal,
                   qpool, enqueued, dequeued, corevars, recipevars, projvars, edgevars>>

\* waiter goroutine: q.cond.Wait() joins the wait list and unlocks q.mu
WaiterWait(w) ==
    /\ Running
    /\ waiter[w] = "spawned"
    /\ IF mu
       THEN /\ mu' = FALSE
            /\ notify' = Append(notify, w)
            /\ waiter' = [waiter EXCEPT ![w] = "waiting"]
            /\ UNCHANGED fatal
       ELSE /\ fatal' = "Wait"
            /\ UNCHANGED <<mu, notify, waiter>>
    /\ UNCHANGED <<items, done, ctxDone, wgCount, pw, enq, stop,
                   qpool, enqueued, dequeued, corevars, recipevars, projvars, edgevars>>

\* waiter goroutine, signalled: q.cond.Wait() locks q.mu again and returns; close(done)
WaiterWake(w) ==
    /\ Running
    /\ waiter[w] = "woken"
    /\ ~mu
    /\ mu' = TRUE
    /\ done' = [done EXCEPT ![w] = TRUE]
    /\ waiter' = [waiter EXCEPT ![w] = "gone"]
    /\ UNCHANGED <<items, notify, ctxDone, wgCount, pw, enq, stop, fatal,
                   qpool, enqueued, dequeued, corevars, recipevars, projvars, edgevars>>

\* WorkerPool.Stop: wp.cancel()
StopCancel ==
    /\ Running
    /\ stop = "idle"
    /\ \A w \in qpool : pw[w].pc # "notstarted"
    /\ ctxDone' = TRUE
    /\ stop' = "wait"
    /\ UNCHANGED <<items, mu, notify, waiter, done, wgCount, pw, enq, fatal,
                   qpool, enqueued, dequeued, corevars, recipevars, projvars, edgevars>>

\* WorkerPool.Stop: wp.wg.Wait() returns
StopWait ==
    /\ Running
    /\ stop = "wait"
    /\ wgCount = 0
    /\ stop' = "returned"
    /\ UNCHANGED <<items, mu, notify, waiter, done, ctxDone, wgCount, pw, enq, fatal,
                   qpool, enqueued, dequeued, corevars, recipevars, projvars, edgevars>>

InitQueue ==
    /\ deployments = << >>
    /\ builds = << >>
    /\ hostnames = << >>
    /\ queue = << >>
    /\ k8sDeployments = << >>
    /\ k8sServices = {}
    /\ k8sIngresses = << >>
    /\ k8sConfigured = TRUE
    /\ pool = 1..PoolSize
    /\ wk = [w \in pool |-> IdleWorker]
    /\ returned = {}
    /\ published = {}
    /\ finished = {}
    /\ cleanups = 0
    /\ faults = 0
    /\ projects = ProjectIDs
    /\ \E n \in 1..MaxPool : NewQueueAndPool(n)
    /\ buildQueue = TRUE
    /\ buildService = TRUE
    /\ saveByValue = "written"
    /\ rejected = 0
    /\ overlapped = {}
    /\ NoDetection
    /\ NoRequests
    /\ NoEdge

NextQueue ==
    \/ \E c \in DOMAIN enq : \E id \in QueueIDs : EnqueueCall(c, id)
    \/ \E c \in DOMAIN enq : EnqueueLock(c)
    \/ \E c \in DOMAIN enq : EnqueueLoad(c)
    \/ \E c \in DOMAIN enq : EnqueueAppend(c)
    \/ \E c \in DOMAIN enq : EnqueueReturn(c)
    \/ \E c \in DOMAIN enq : SizeCall(c)
    \/ \E c \in DOMAIN enq : SizeLock(c)
    \/ \E c \in DOMAIN enq : SizeRead(c)
    \/ \E c \in DOMAIN enq : SizeReturn(c)
    \/ PoolStart
    \/ \E w \in qpool : WorkerSelect(w)
    \/ \E w \in qpool : DequeueLock(w)
    \/ \E w \in qpool : DequeueLoop(w)
    \/ \E w \in qpool : DequeueItem(w)
    \/ \E w \in qpool : DequeueSlice(w)
    \/ \E w \in qpool : DequeueStore(w)
    \/ \E w \in qpool : \E branch \in {"ctx", "done"} : DequeueSelect(w, branch)
    \/ \E w \in qpool : DequeueReturn(w)
    \/ \E w \in qpool : WorkerBuild(w)
    \/ \E w \in qpool : WorkerDone(w)
    \/ \E w \in qpool : WaiterWait(w)
    \/ \E w \in qpool : WaiterWake(w)
    \/ StopCancel
    \/ StopWait

SpecQueue == InitQueue /\ [][NextQueue]_vars

(***************************************************************************)
(* Service.detectAndCreateDockerfile on one source tree, one os.Stat a     *)
(* step.                                                                   *)
(***************************************************************************)
\* the recipe written for a marker: none for an existing Dockerfile
RecipeFor(marker) ==
    CASE marker = "Dockerfile" -> ""
      [] marker = "package.json" -> "node"
      [] marker = "requirements.txt" -> "python"
      [] marker = "go.mod" -> "go"

\* os.Stat(filepath.Join(repoPath, name)) succeeds
Stat(name) == name \in tree

\* one if statement of detectAndCreateDockerfile; after the last, the error return
DetectStep ==
    /\ probe \in 1..Len(ProbeOrder)
    /\ LET marker == ProbeOrder[probe]
       IN IF Stat(marker)
          THEN /\ recipe' = [dockerfile |-> "Dockerfile",
                             generated |-> RecipeFor(marker),
                             err |-> IF RecipeFor(marker) # "" /\ writeErr
                                     THEN "write Dockerfile failed" ELSE ""]
               /\ probe' = Resolved
          ELSE IF probe = Len(ProbeOrder)
          THEN /\ recipe' = [dockerfile |-> "", generated |-> "",
                             err |-> "could not detect project type"]
               /\ probe' = Resolved
          ELSE /\ probe' = probe + 1
               /\ UNCHANGED recipe
    /\ UNCHANGED <<tree, writeErr, corevars, qvars, projvars, edgevars>>

\* the record store, cluster, queue and pool as main leaves them, nothing pushed
CoreIdle ==
    /\ deployments = << >>
    /\ builds = << >>
    /\ hostnames = << >>
    /\ queue = << >>
    /\ k8sDeployments = << >>
    /\ k8sServices = {}
    /\ k8sIngresses = << >>
    /\ k8sConfigured = TRUE
    /\ pool = 1..PoolSize
    /\ wk = [w \in pool |-> IdleWorker]
    /\ returned = {}
    /\ published = {}
    /\ finished = {}
    /\ cleanups = 0
    /\ faults = 0
    /\ projects = ProjectIDs
    /\ buildQueue = TRUE
    /\ buildService = TRUE
    /\ saveByValue = "written"
    /\ rejected = 0
    /\ overlapped = {}
    /\ NewQueueAndPool(PoolSize)

InitRecipe ==
    /\ CoreIdle
    /\ NoRequests
    /\ NoEdge
    /\ tree \in SUBSET TreeFiles
    /\ writeErr \in BOOLEAN
    /\ probe = 1
    /\ recipe = NoRecipe

NextRecipe == DetectStep

SpecRecipe == InitRecipe /\ [][NextRecipe]_vars

(***************************************************************************)
(* api.CreateProject, one store call a step, several requests in flight.   *)
(***************************************************************************)
Letters ==
    {"a", "b", "c", "d", "e", "f", "g", "h", "i", "j", "k", "l", "m", "n", "o", "p", "q",
     "r", "s", "t", "u", "v", "w", "x", "y", "z",
     "A", "B", "C", "D", "E", "F", "G", "H", "I", "J", "K", "L", "M", "N", "O", "P", "Q",
     "R", "S", "T", "U", "V", "W", "X", "Y", "Z",
     "0", "1", "2", "3", "4", "5", "6", "7", "8", "9"}

\* variant: every character of the name is kept
SlugCharKeepsAll(c) == <<c>>

\* generateSlug: one character of the name
SlugChar(c) ==
    IF c \in Letters THEN <<c>>
    ELSE IF c \in {" ", "-", "_"} THEN <<"-">>
    ELSE << >>

RECURSIVE SlugOf(_)
SlugOf(name) ==
    IF name = << >> THEN << >> ELSE SlugChar(Head(name)) \o SlugOf(Tail(name))

\* generateSlug(name)
GenerateSlug(name) ==
    IF SlugOf(name) = << >> THEN <<"p", "r", "o", "j", "e", "c", "t">> ELSE SlugOf(name)

\* request bodies: project names, (repo_owner, repo_name) pairs, requesting users
RequestNames == {<<"A", "p", "p">>, <<"a", "p", "p">>, <<"m", "y", " ", "a", "p", "p">>}

RequestRepos == {<<"acme", "app">>, <<"acme", "api">>}

RequestUsers == {1, 2}

\* the :id parameter of POST /projects/:id/link
LinkIDs == 1..2

ProjectRowIDs == DOMAIN projectRows

\* DB.Where("repo_owner = ? AND repo_name = ?", ...).First: lowest ID, 0 when none
FirstProjectOfRepo(repo) ==
    IF \E i \in ProjectRowIDs : projectRows[i].repo = repo
    THEN CHOOSE i \in ProjectRowIDs :
            /\ projectRows[i].repo = repo
            /\ \A j \in ProjectRowIDs : projectRows[j].repo = repo => i <= j
    ELSE 0

\* unique index on projects.slug
SlugFree(slug) == \A i \in ProjectRowIDs : projectRows[i].slug # slug

\* CreateProject: bind the request, look the repository up; the row found is loaded
\* into existingProject
CreateProjectLookup(h, name, repo, user) ==
    /\ handlers[h].pc = "idle"
    /\ LET found == FirstProjectOfRepo(repo)
       IN handlers' = [handlers EXCEPT ![h] =
                          [pc |-> IF found # 0 THEN "relink" ELSE "create",
                           name |-> name, repo |-> repo, user |-> user,
                           existing |-> found,
                           row |-> IF found # 0 THEN projectRows[found] ELSE NoProjectRow,
                           response |-> 0]]
    /\ UNCHANGED <<projectRows, corevars, qvars, recipevars, edgevars>>

\* DB.Save(&project): every column of the loaded row is written back by primary key
SaveProject(id, row) == [projectRows EXCEPT ![id] = row]

\* CreateProject: the Project exists: when the loaded row belongs to another user,
\* set UserID on it and save it; answer 200 either way
CreateProjectRelink(h) ==
    /\ handlers[h].pc = "relink"
    /\ IF handlers[h].row.user # handlers[h].user
       THEN projectRows' = SaveProject(handlers[h].existing,
                                       [handlers[h].row EXCEPT !.user = handlers[h].user])
       ELSE UNCHANGED projectRows
    /\ handlers' = [handlers EXCEPT ![h].pc = "done", ![h].response = 200,
                                    ![h].row.user = handlers[h].user]
    /\ UNCHANGED <<corevars, qvars, recipevars, edgevars>>

\* LinkProject: DB.First(&project, id); 404 when there is no such row
LinkProjectLoad(h, id, user) ==
    /\ handlers[h].pc = "idle"
    /\ handlers' = [handlers EXCEPT ![h] =
                       IF id \in ProjectRowIDs
                       THEN [pc |-> "link", name |-> Empty, repo |-> Empty, user |-> user,
                             existing |-> id, row |-> projectRows[id], response |-> 0]
                       ELSE [pc |-> "done", name |-> Empty, repo |-> Empty, user |-> user,
                             existing |-> 0, row |-> NoProjectRow, response |-> 404]]
    /\ UNCHANGED <<projectRows, corevars, qvars, recipevars, edgevars>>

\* LinkProject: set UserID on the loaded row, save it, answer 200
LinkProjectSave(h) ==
    /\ handlers[h].pc = "link"
    /\ projectRows' = SaveProject(handlers[h].existing,
                                  [handlers[h].row EXCEPT !.user = handlers[h].user])
    /\ handlers' = [handlers EXCEPT ![h].pc = "done", ![h].response = 200,
                                    ![h].row.user = handlers[h].user]
    /\ UNCHANGED <<corevars, qvars, recipevars, edgevars>>

\* CreateProject: generate the slug, DB.Create; 201, or 500 when the store rejects it
CreateProjectInsert(h) ==
    /\ handlers[h].pc = "create"
    /\ LET slug == GenerateSlug(handlers[h].name)
       IN IF SlugFree(slug)
          THEN /\ projectRows' = Append(projectRows,
                      [user |-> handlers[h].user, name |-> handlers[h].name, slug |-> slug,
                       repo |-> handlers[h].repo])
               /\ handlers' = [handlers EXCEPT ![h].pc = "done", ![h].response = 201]
          ELSE /\ handlers' = [handlers EXCEPT ![h].pc = "done", ![h].response = 500]
               /\ UNCHANGED projectRows
    /\ UNCHANGED <<corevars, qvars, recipevars, edgevars>>

InitProject ==
    /\ CoreIdle
    /\ NoDetection
    /\ NoRequests
    /\ NoEdge

NextProject ==
    \/ \E h \in DOMAIN handlers : \E name \in RequestNames : \E repo \in RequestRepos :
          \E user \in RequestUsers : CreateProjectLookup(h, name, repo, user)
    \/ \E h \in DOMAIN handlers : CreateProjectRelink(h)
    \/ \E h \in DOMAIN handlers : CreateProjectInsert(h)
    \/ \E h \in DOMAIN handlers : \E id \in LinkIDs : \E user \in RequestUsers :
          LinkProjectLoad(h, id, user)
    \/ \E h \in DOMAIN handlers : LinkProjectSave(h)

SpecProject == InitProject /\ [][NextProject]_vars

(***************************************************************************)
(* AssignHostname's candidate for a Project row with no Hostname row in    *)
(* the store: the slug it picks, folded by GenerateProjectHostname.        *)
(***************************************************************************)
\* project names as CreateProject receives them (binding:"required": never empty)
NameInputs ==
    {<<"M", "y", " ", "A", "p", "p">>, <<"m", "y", "@", "a", "p", "p">>,
     <<"a", ".", "b", "_", "c">>, <<"S", "h", "o", "p", "2">>, <<"@", "!">>,
     <<"A", "P", "I", " ", "v", "2">>, <<"n", "o", "d", "e", ".", "j", "s">>,
     <<"w", "e", "b", "-", "1">>, <<"A", "/", "B">>, <<"_", "X", "_">>}

\* repository names as CreateProject receives them (binding:"required": never empty)
RepoNameInputs ==
    {<<"w", "e", "b">>, <<"A", "P", "I">>, <<"m", "y", "_", "r", "e", "p", "o">>,
     <<"s", "i", "t", "e", ".", "i", "o">>, <<"a", "-", "b">>, <<"Z">>}

\* the slugs CreateProject stores: generateSlug of the request's name
SlugInputs == {GenerateSlug(n) : n \in NameInputs}

\* the Project rows CreateProject stores for these requests
StoredProjects ==
    {a \in [slug : SlugInputs, name : NameInputs, repoName : RepoNameInputs] :
        a.slug = GenerateSlug(a.name)}

\* AssignHostname up to its candidate: First(&project), the slug, the hostname
AssignCandidate ==
    /\ derived = Empty
    /\ derived' = GenerateProjectHostname(ProjectSlugOf(assignee))
    /\ UNCHANGED <<assignee, cfgSecret, limiter, clock, allowedAt, response,
                   buildService, saveByValue, push, corevars, qvars, recipevars, projvars>>

InitCandidate ==
    /\ CoreIdle
    /\ NoDetection
    /\ NoRequests
    /\ NoWebhook
    /\ NoPush
    /\ assignee \in StoredProjects
    /\ derived = Empty

NextCandidate == AssignCandidate

SpecCandidate == InitCandidate /\ [][NextCandidate]_vars

(***************************************************************************)
(* The Limiter on its own: Allow calls at any times.  A configuration is   *)
(* <<rate, duration in seconds>> with a duration that is a multiple of the *)
(* rate, so that duration/rate is a whole number of seconds.               *)
(***************************************************************************)
MaxClock == 7

LimiterConfigs == {<<10, 60>>, <<2, 2>>, <<2, 4>>, <<1, 3>>}

\* time passes
Tick ==
    /\ clock < MaxClock
    /\ clock' = clock + 1
    /\ UNCHANGED <<assignee, derived, cfgSecret, limiter, allowedAt, response,
                   buildService, saveByValue, push, corevars, qvars, recipevars, projvars>>

\* one call of Limiter.Allow
AllowCall ==
    /\ limiter' = Allow(limiter, clock).limiter
    /\ allowedAt' = IF Allow(limiter, clock).ok THEN Append(allowedAt, clock) ELSE allowedAt
    /\ UNCHANGED <<assignee, derived, cfgSecret, clock, response,
                   buildService, saveByValue, push, corevars, qvars, recipevars, projvars>>

InitLimiter ==
    /\ CoreIdle
    /\ NoDetection
    /\ NoRequests
    /\ NoCandidate
    /\ cfgSecret = ""
    /\ \E c \in LimiterConfigs : limiter = NewLimiter(c[1], c[2], 0)
    /\ clock = 0
    /\ allowedAt = << >>
    /\ response = NoResponse
    /\ NoPush

NextLimiter == Tick \/ AllowCall

SpecLimiter == InitLimiter /\ [][NextLimiter]_vars

(***************************************************************************)
(* The webhook route: the rate limiter of main, HandleWebhook and          *)
(* handlePushEvent up to the Project lookup, then the creation of the      *)
(* Deployment.  A request is its signature header, its event header and    *)
(* what its body holds.                                                    *)
(***************************************************************************)
ConfiguredSecrets == {"", "hunter2"}

SenderKeys == {DefaultSecret, "hunter2"}

\* a push event with every field, for a repository that has a Project
FullRequest(k) ==
    [signature |-> Sign(k), event |-> "push", parses |-> TRUE, repo |-> TRUE,
     owner |-> TRUE, name |-> TRUE, headCommit |-> TRUE, commitID |-> TRUE, known |-> TRUE]

\* complete pushes signed with either key, and pushes signed with the default key
\* that lack the signature header, are no push, or miss a field or a Project
WebhookRequests ==
    {FullRequest(k) : k \in SenderKeys} \cup
    {[FullRequest(DefaultSecret) EXCEPT !.signature = NoSignature],
     [FullRequest(DefaultSecret) EXCEPT !.event = "ping"],
     [FullRequest(DefaultSecret) EXCEPT !.parses = FALSE],
     [FullRequest(DefaultSecret) EXCEPT !.repo = FALSE],
     [FullRequest(DefaultSecret) EXCEPT !.owner = FALSE],
     [FullRequest(DefaultSecret) EXCEPT !.name = FALSE],
     [FullRequest(DefaultSecret) EXCEPT !.headCommit = FALSE],
     [FullRequest(DefaultSecret) EXCEPT !.commitID = FALSE],
     [FullRequest(DefaultSecret) EXCEPT !.known = FALSE]}

\* HandleWebhook and handlePushEvent up to the Project lookup: the status they answer
\* with, 0 when the request goes on to the creation of the Deployment
Screen(req, webhookSecret) ==
    IF ~verifySignature(req.signature, webhookSecret) THEN 401
    ELSE IF req.event # "push" THEN 200
    ELSE IF ~req.parses THEN 400
    ELSE IF ~req.repo THEN 400
    ELSE IF ~req.owner THEN 400
    ELSE IF ~req.name THEN 400
    ELSE IF ~req.headCommit THEN 400
    ELSE IF ~req.commitID THEN 400
    ELSE IF ~req.known THEN 404
    ELSE 0

\* POST /webhooks/github: the route's rateLimiter.Allow(); Rate limit exceeded, or on
\* to HandleWebhook
WebhookAllow(h, req) ==
    /\ Running
    /\ push[h].pc = "idle"
    /\ LowestIdle(h)
    /\ limiter' = Allow(limiter, clock).limiter
    /\ IF Allow(limiter, clock).ok
       THEN /\ push' = [push EXCEPT ![h] = [IdlePush EXCEPT !.pc = "screen",
                                                            !.request = req]]
            /\ UNCHANGED response
       ELSE /\ response' = [request |-> req, allowed |-> FALSE, status |-> 429,
                            changed |-> FALSE]
            /\ UNCHANGED push
    /\ UNCHANGED <<assignee, derived, cfgSecret, clock, allowedAt, buildService, saveByValue,
                   corevars, qvars, recipevars, projvars>>

\* HandleWebhook and handlePushEvent up to the Project lookup: the request is answered
\* there, or it has resolved Project p and head commit sha
WebhookScreen(h, p, sha) ==
    /\ Running
    /\ push[h].pc = "screen"
    /\ IF Screen(push[h].request, InitWebhook(cfgSecret)) # 0
       THEN /\ response' = [request |-> push[h].request, allowed |-> TRUE,
                            status |-> Screen(push[h].request, InitWebhook(cfgSecret)),
                            changed |-> FALSE]
            /\ push' = [push EXCEPT ![h] = IdlePush]
       ELSE /\ InOrder(p)
            /\ Len(deployments) + Cardinality(Creating) < MaxDeployments
            /\ push' = [push EXCEPT ![h].pc = "create", ![h].project = p, ![h].sha = sha]
            /\ UNCHANGED response
    /\ UNCHANGED <<assignee, derived, cfgSecret, limiter, clock, allowedAt, buildService, saveByValue,
                   corevars, qvars, recipevars, projvars>>

InitWebhookRoute ==
    /\ CoreIdle
    /\ NoDetection
    /\ NoRequests
    /\ NoCandidate
    /\ NoPush
    /\ cfgSecret \in ConfiguredSecrets
    /\ limiter = WebhookLimiter
    /\ clock = 0
    /\ allowedAt = << >>
    /\ response = NoResponse

NextWebhook ==
    \/ Tick
    \/ \E h \in DOMAIN push : \E req \in WebhookRequests : WebhookAllow(h, req)
    \/ \E h \in DOMAIN push : \E p \in projects : \E sha \in Commits :
          WebhookScreen(h, p, sha)
    \/ \E h \in DOMAIN push : PushCreate(h)
    \/ \E h \in DOMAIN push : PushEnqueue(h)

SpecWebhook == InitWebhookRoute /\ [][NextWebhook]_vars

(***************************************************************************)
(* Properties.                                                             *)
(***************************************************************************)
RowsOf(p) == {i \in HostnameIDs : hostnames[i].project = p}

ActiveRowsOf(p) == {i \in HostnameIDs : hostnames[i].project = p /\ hostnames[i].active}

\* no worker is inside BuildDeployment and no webhook request is in flight
Quiescent ==
    /\ \A w \in pool : wk[w].pc = "idle"
    /\ \A h \in DOMAIN push : push[h].pc = "idle"

Done(d) == \E f \in finished : f[1] = d

DotLocalhost == <<".", "l", "o", "c", "a", "l", "h", "o", "s", "t">>

\* "app.localhost" for k = 0, "app-k.localhost" for k in 1..9, written out
AppHost(k) ==
    IF k = 0 THEN <<"a", "p", "p">> \o DotLocalhost
    ELSE <<"a", "p", "p", "-", <<"1", "2", "3", "4", "5", "6", "7", "8", "9">>[k]>> \o DotLocalhost

Held(h) == \E i \in HostnameIDs : hostnames[i].hostname = h

\* C1 (hostname stability): once the pipeline runs are over, all Deployments of one
\* Project whose publish succeeded carry the same hostname, and the Project has
\* exactly one active Hostname row.
C1_HostnameStability ==
    Quiescent =>
        \A d1, d2 \in published :
            (Done(d1) /\ Done(d2) /\ deployments[d1].project = deployments[d2].project) =>
                /\ deployments[d1].hostname = deployments[d2].hostname
                /\ Cardinality(ActiveRowsOf(deployments[d1].project)) = 1

\* C2: a call of AssignHostname for a Project that has an active row returns the
\* hostname string stored in that row.
C2_ReuseReturnsStored ==
    \A w \in pool :
        (wk[w].pc = "dk_save" /\ wk[w].existing.id # 0) =>
            wk[w].hostname = hostnames[wk[w].existing.id].hostname

\* C3 (global uniqueness): no hostname is returned to, or written on a Deployment of,
\* two different Projects.
C3_GlobalUniqueness ==
    /\ \A r1, r2 \in returned : r1[1] # r2[1] => r1[3] # r2[3]
    /\ \A d1, d2 \in DeploymentIDs :
           (deployments[d1].project # deployments[d2].project
              /\ deployments[d1].hostname # Empty) =>
               deployments[d1].hostname # deployments[d2].hostname

\* C4: in every reachable state a Project has at most one active Hostname row.
C4_AtMostOneActive ==
    \A p \in ProjectIDs : Cardinality(ActiveRowsOf(p)) <= 1

\* worker w is at one of the store calls of AssignHostname
AtAssign(w) ==
    wk[w].pc \in {"ah_find", "ah_deact", "ah_save", "ah_probe", "ah_deactAll", "ah_create",
                  "ah_updateReuse", "ah_updateNew"}

\* No two workers are inside AssignHostname at once: a Deployment has hostname ""
\* until the last store call of its AssignHostname call, and the unique index on
\* deployments.hostname admits one row with hostname "" at a time.
C4_OneCallAtATime ==
    \A a, b \in pool : (AtAssign(a) /\ AtAssign(b)) => a = b

\* the Project of worker w's Deployment has one Hostname row, active, pointing at it
OneRowPointsAtJob(w) ==
    /\ Cardinality(RowsOf(wk[w].dep.project)) = 1
    /\ \A i \in RowsOf(wk[w].dep.project) :
           hostnames[i].active /\ hostnames[i].deployment = wk[w].job

\* C5: at the step in which AssignHostname returns for a Project that was allocated a
\* hostname by an earlier call, the Project has exactly one Hostname row, the row is
\* active and it points at the Deployment of this call.
C5_ReuseUpdatesInPlace ==
    [][\A w \in pool :
          (/\ wk[w].pc # "dk_save"
           /\ wk'[w].pc = "dk_save"
           /\ \E r \in returned : r[1] = wk[w].dep.project /\ r[2] # wk[w].job) =>
              OneRowPointsAtJob(w)']_vars

\* a second call for the Project has returned and its one row points at the second Deployment
C5_Witness ==
    \E w \in pool :
        /\ wk[w].pc = "dk_save"
        /\ wk[w].existing.id # 0
        /\ wk[w].existing.deployment = wk[w].job
        /\ hostnames[wk[w].existing.id].deployment = wk[w].job
        /\ \E r \in returned : r[1] = wk[w].dep.project /\ r[2] < wk[w].job

\* C6: the probe loop of a first allocation exits on "app.localhost" when no row holds
\* it, and otherwise on "app-k.localhost" for the smallest k >= 1 that no row holds.
C6_ProbeSmallestFree ==
    \A w \in pool :
        wk[w].pc = "ah_deactAll" =>
            \E k \in 0..Len(hostnames) :
                /\ wk[w].hostname = AppHost(k)
                /\ ~Held(AppHost(k))
                /\ \A j \in 0..(k - 1) : Held(AppHost(j))

\* the candidate is held by another Project's row and the loop has exited on app-1.localhost
C6_Witness ==
    \E w \in pool :
        /\ wk[w].pc = "ah_deactAll"
        /\ wk[w].hostname = AppHost(1)
        /\ \E i \in HostnameIDs : /\ hostnames[i].hostname = AppHost(0)
                                  /\ hostnames[i].project # wk[w].dep.project

\* C7: a Deployment's non-empty hostname is the hostname of its Project's single active
\* row, and AssignHostname has written the hostname it returns onto the Deployment record.
C7_DeploymentCarriesActiveHostname ==
    /\ Quiescent =>
           \A d \in DeploymentIDs :
               deployments[d].hostname # Empty =>
                   /\ Cardinality(ActiveRowsOf(deployments[d].project)) = 1
                   /\ \A i \in ActiveRowsOf(deployments[d].project) :
                          hostnames[i].hostname = deployments[d].hostname
    /\ \A w \in pool :
           wk[w].pc = "dk_save" => deployments[wk[w].job].hostname = wk[w].hostname

\* C8: AssignHostname does not return a hostname with a nil error after one of its
\* record-store operations failed.
C8_StoreErrorAborts ==
    \A w \in pool : wk[w].pc = "dk_save" => ~wk[w].storeErr

\* C9: an already-exists conflict on the process group is not an error of
\* CreateOrUpdateDeployment.
C9_ConflictIsNoError ==
    /\ \A w \in pool : wk[w].err # "deployment already exists"
    /\ \A f \in finished : f[2] # "deployment already exists"

\* C10: a second Deployment of a Project whose first Deployment was published, processed
\* with no external failure other than name conflicts, ends deployed, and the Project's
\* process group, endpoint and route exist, the process group running the second image.
C10_SecondDeploymentUpdatesInPlace ==
    \A f \in finished :
        (/\ cleanups = 0
         /\ f[2] \in {"", "deployment already exists"}
         /\ \E d1 \in published : /\ d1 < f[1]
                                  /\ deployments[d1].project = deployments[f[1]].project
         /\ \A g \in finished :
                deployments[g[1]].project = deployments[f[1]].project => g[1] <= f[1]) =>
            LET name == DeploymentName(deployments[f[1]].project)
            IN /\ deployments[f[1]].status = "deployed"
               /\ name \in DOMAIN k8sDeployments
               /\ k8sDeployments[name] = ImageTag(f[1], deployments[f[1]].sha)
               /\ name \in k8sServices
               /\ name \in DOMAIN k8sIngresses

(***************************************************************************)
(* Build queue and worker pool.                                            *)
(***************************************************************************)
DequeuedIds == [i \in DOMAIN dequeued |-> dequeued[i].id]

\* C11 FIFO: with a single worker of a running pool, the ids Dequeue has removed,
\* followed by the ids still queued, are the ids in the order Enqueue appended
\* them; so ids enqueued with no dequeue in between come out in the order they
\* went in.
C11_Fifo == (Cardinality(qpool) = 1 /\ ~ctxDone) => DequeuedIds \o items = enqueued

\* 5, 7, 9 were all queued when the single worker of the pool made its first Dequeue,
\* and it has dequeued all three
C11_Witness ==
    /\ Cardinality(qpool) = 1
    /\ enqueued = <<5, 7, 9>>
    /\ Len(dequeued) = 3
    /\ dequeued[1].pending = 3

\* C12 Dequeue, cancelled while it waits on an empty queue, returns the cancellation
\* error to its caller: its deferred Unlock does not end the process.
C12_CancelledDequeueReturns == fatal # "Dequeue"

\* C13 Enqueue completes in every reachable state: its deferred Unlock does not end
\* the process.
C13_EnqueueCompletes == fatal # "Enqueue"

\* C14 Pool shutdown completeness: once Stop has returned, every worker loop has
\* returned and no waiter goroutine spawned by a Dequeue call is runnable or blocked.
C14_NoGoroutineAfterStop ==
    stop = "returned" =>
        \A w \in qpool : pw[w].pc = "returned" /\ waiter[w] \in {"none", "gone"}

\* C15 Stop terminates without the process failing: no fatal error occurs while Stop
\* waits for the workers.
C15_StopDoesNotFail == ~(stop = "wait" /\ fatal # "")

(***************************************************************************)
(* Deployment status and the pipeline's outcomes.                          *)
(***************************************************************************)
Terminal == {"deployed", "failed"}

BuildErrors == BuildOutcomes \ {"ok"}

BuildOf(d) == {b \in DOMAIN builds : builds[b].deployment = d}

Allocated(d) == \E r \in returned : r[2] = d

\* C16 State machine legality: a Deployment whose status is deployed or failed keeps
\* that status in every later step.
C16_TerminalIsFinal ==
    [][\A d \in DeploymentIDs :
          deployments[d].status \in Terminal => deployments'[d].status = deployments[d].status]_vars

\* one Deployment has ended deployed, a later one failed, and all runs are over
C16_Witness ==
    /\ Quiescent
    /\ \E d1, d2 \in DeploymentIDs :
          /\ d1 < d2
          /\ Done(d1) /\ Done(d2)
          /\ deployments[d1].status = "deployed"
          /\ deployments[d2].status = "failed"

\* C17 The Deployment a worker has dequeued has status building while source fetch
\* and image build run.
C17_BuildingWhileBuildRuns ==
    \A w \in pool : wk[w].pc = "bd_build" => deployments[wk[w].job].status = "building"

\* C18 Build failure: when clone, recipe detection, build context or image build
\* fails, the Build ends failed with the error text as its log, the Deployment is
\* still pending when the worker gets the error and ends failed, and it was never
\* given an image reference, a hostname or a published workload.
C18_BuildFailure ==
    /\ \A w \in pool :
          (wk[w].pc = "wk_fail" /\ wk[w].err \in BuildErrors) =>
              deployments[wk[w].job].status = "pending"
    /\ \A f \in finished :
          f[2] \in BuildErrors =>
              /\ \A b \in BuildOf(f[1]) :
                    builds[b].status = "failed" /\ builds[b].logs = f[2]
              /\ BuildOf(f[1]) # {}
              /\ deployments[f[1]].status = "failed"
              /\ deployments[f[1]].image = Empty
              /\ deployments[f[1]].hostname = Empty
              /\ ~Allocated(f[1])
              /\ f[1] \notin published

\* a run has ended on a source tree whose project type could not be detected
C18_Witness ==
    \E f \in finished : f[2] = "could not detect project type"

\* C19 With a publisher configured and a successful image build, the persisted final
\* status is deployed when allocation and publish succeeded (BuildDeployment
\* returned nil), and failed with a non-nil error returned when either failed.
C19_FinalStatusFollowsOutcome ==
    k8sConfigured =>
        \A f \in finished :
            f[2] \notin BuildErrors =>
                /\ f[1] \in published => (f[2] = "" /\ deployments[f[1]].status = "deployed")
                /\ f[1] \notin published => (f[2] # "" /\ deployments[f[1]].status = "failed")

\* C20 Degraded mode: without a publisher, a run whose image build succeeded ends with
\* Build success and Deployment deploying with its image reference, returns nil
\* (the call does not end the process), and no Hostname row and no workload
\* resource exists.
C20_DegradedMode ==
    ~k8sConfigured =>
        /\ fatal # "DB.Save"
        /\ hostnames = << >>
        /\ k8sDeployments = << >> /\ k8sServices = {} /\ k8sIngresses = << >>
        /\ returned = {} /\ published = {}
        /\ \A f \in finished :
              /\ f[2] \in BuildErrors \cup {""}
              /\ f[2] = "" =>
                    /\ deployments[f[1]].status = "deploying"
                    /\ deployments[f[1]].image = ImageTag(f[1], deployments[f[1]].sha)
                    /\ \A b \in BuildOf(f[1]) : builds[b].status = "success"

(***************************************************************************)
(* Failure isolation, ingestion, image references, concurrency, publish.   *)
(***************************************************************************)
\* C21 All failures are per-job: no outcome of a job, a commit id shorter than 7
\* characters included, ends the process in BuildDeployment.
C21_FailuresArePerJob == fatal # "BuildDeployment"

Started(d) == Done(d) \/ \E w \in pool : wk[w].job = d /\ wk[w].pc \notin {"idle", "bd_load"}

\* C23 Build and Deployment are 1:1: no Deployment has more than one Build, and a
\* Deployment a worker has started processing has exactly one.
C23_OneBuildPerDeployment ==
    \A d \in DeploymentIDs :
        /\ Cardinality(BuildOf(d)) <= 1
        /\ Started(d) => Cardinality(BuildOf(d)) = 1

\* two Deployments have been processed to the end
C23_Witness ==
    \E d1, d2 \in DeploymentIDs : d1 # d2 /\ Done(d1) /\ Done(d2) /\ Len(builds) = 2

\* C25 A Deployment the ingestion entrypoint created but could not enqueue (no queue
\* available) is marked failed, not left pending.
C25_UnqueuedIsMarkedFailed ==
    (~buildQueue /\ ~buildService) =>
        \A d \in DeploymentIDs :
            (\A h \in DOMAIN push : ~(push[h].pc = "enqueue" /\ push[h].id = d)) =>
                deployments[d].status = "failed"

\* C26 Every accepted push creates a Deployment: no push is answered with a store
\* error, whatever Deployments already exist.
C26_EveryPushCreates == rejected = 0

DigitOfId(d) == <<"1", "2", "3", "4", "5", "6", "7", "8", "9">>[d]

\* C27 A Deployment in status deploying or deployed has the image reference
\* deploy-<id>:<first 7 characters of its commit id> and a Build with status success.
C27_ImageRecorded ==
    \A d \in DeploymentIDs :
        deployments[d].status \in {"deploying", "deployed"} =>
            /\ deployments[d].image # Empty
            /\ deployments[d].image =
                  <<"d", "e", "p", "l", "o", "y", "-", DigitOfId(d), ":">>
                      \o [i \in 1..7 |-> deployments[d].sha[i]]
            /\ BuildOf(d) # {}
            /\ \A b \in BuildOf(d) : builds[b].status = "success"

\* one Deployment is deploying and another deployed
C27_Witness ==
    \E d1, d2 \in DeploymentIDs :
        deployments[d1].status = "deploying" /\ deployments[d2].status = "deployed"

\* C28 With a configured publisher, a Deployment whose pipeline run is over has a
\* terminal status (no later step writes it, so otherwise it never gets one).
C28_FinishedIsTerminal ==
    k8sConfigured => \A d \in DeploymentIDs : Done(d) => deployments[d].status \in Terminal

\* C29 Two Deployments of one Project whose allocate-and-publish steps overlapped on
\* two workers: after both runs the two carry the same hostname and the Project
\* has exactly one active Hostname row, pointing at one of the two.
C29_ConcurrentSameProject ==
    Quiescent =>
        \A d1, d2 \in DeploymentIDs :
            ( /\ {d1, d2} \in overlapped
              /\ d1 # d2
              /\ Done(d1) /\ Done(d2)
              /\ deployments[d1].project = deployments[d2].project ) =>
                /\ deployments[d1].hostname = deployments[d2].hostname
                /\ Cardinality(ActiveRowsOf(deployments[d1].project)) = 1
                /\ \A i \in ActiveRowsOf(deployments[d1].project) :
                      hostnames[i].deployment \in {d1, d2}

EndpointErrors == {"failed to create service", "failed to update service",
                   "failed to create ingress", "failed to update ingress"}

\* C30 Publish is not transactional: when the Service or Ingress step fails after the
\* process group was created, the error names the failed step, the process group
\* stays in the cluster with this Deployment's image, and the Deployment ends failed.
C30_NoRollback ==
    /\ \A w \in pool :
          (wk[w].pc \in {"bd_saveFailed", "wk_fail"} /\ wk[w].err \in EndpointErrors
             /\ cleanups = 0) =>
              /\ DeploymentName(wk[w].dep.project) \in DOMAIN k8sDeployments
              /\ k8sDeployments[DeploymentName(wk[w].dep.project)] = wk[w].dep.image
    /\ \A f \in finished :
          f[2] \in EndpointErrors =>
              /\ deployments[f[1]].status = "failed"
              /\ f[1] \notin published
              /\ cleanups = 0 =>
                    DeploymentName(deployments[f[1]].project) \in DOMAIN k8sDeployments

\* a run has ended on a failed Service create, the process group still in place
C30_Witness ==
    /\ cleanups = 0
    /\ \E f \in finished :
          /\ f[2] = "failed to create service"
          /\ DeploymentName(deployments[f[1]].project) \in DOMAIN k8sDeployments

\* C22 Recipe resolution follows a fixed priority: an existing Dockerfile is used as
\* is; otherwise package.json selects Node, otherwise requirements.txt selects
\* Python, otherwise go.mod selects Go; with none of the four it fails with
\* "could not detect project type".
C22_RecipePriority ==
    (probe = Resolved /\ recipe # NoRecipe) =>
        IF "Dockerfile" \in tree
        THEN recipe = [dockerfile |-> "Dockerfile", generated |-> "", err |-> ""]
        ELSE IF "package.json" \in tree
        THEN recipe.dockerfile = "Dockerfile" /\ recipe.generated = "node"
        ELSE IF "requirements.txt" \in tree
        THEN recipe.dockerfile = "Dockerfile" /\ recipe.generated = "python"
        ELSE IF "go.mod" \in tree
        THEN recipe.dockerfile = "Dockerfile" /\ recipe.generated = "go"
        ELSE recipe = [dockerfile |-> "", generated |-> "",
                       err |-> "could not detect project type"]

\* a tree with requirements.txt and go.mod but neither Dockerfile nor package.json
\* has been resolved to the Python recipe
C22_Witness ==
    /\ probe = Resolved
    /\ tree = {"requirements.txt", "go.mod"}
    /\ recipe.generated = "python"

\* C24 At most one Project record exists for a (repo_owner, repo_name), also when two
\* CreateProject requests for it are handled concurrently.
C24_OneProjectPerRepo ==
    \A i, j \in ProjectRowIDs : projectRows[i].repo = projectRows[j].repo => i = j

\* C34 Once the pipeline runs are over, the active Hostname row of a Project does not
\* point at a failed Deployment.
C34_ActiveRowPointsAtLive ==
    Quiescent =>
        \A i \in HostnameIDs :
            (hostnames[i].active /\ hostnames[i].deployment \in DeploymentIDs) =>
                deployments[hostnames[i].deployment].status # "failed"

\* operations between their q.mu.Lock() and their deferred q.mu.Unlock(); a Dequeue
\* blocked in its select has handed the mutex to its waiter goroutine
InCriticalSection ==
    {<<"caller", c>> : c \in {k \in DOMAIN enq : enq[k].pc \in
                                   {"locked", "append", "unlock", "sz_read", "sz_unlock"}}}
        \cup {<<"Dequeue", w>> : w \in {k \in qpool : pw[k].pc \in
                                   {"dq_loop", "dq_item", "dq_slice", "dq_store", "dq_return"}}}

\* C35 Queue lock discipline: no Unlock hits an unlocked mutex, at most one operation
\* is inside its critical section, and that operation holds the mutex.
C35_LockDiscipline ==
    /\ fatal = ""
    /\ Cardinality(InCriticalSection) <= 1
    /\ InCriticalSection # {} => mu

\* C36 A Dequeue call that returned on cancellation leaves no waiter goroutine behind
\* that still has to unlock the mutex or to take a later signal.
C36_CancelledDequeueLeavesNoWaiter ==
    \A w \in qpool :
        (pw[w].err /\ pw[w].pc \in {"exit", "returned"}) =>
            waiter[w] \notin {"spawned", "waiting", "woken"}

\* C37 Conservation: the ids returned by Dequeue are a prefix of the enqueued ids,
\* every enqueued id is queued or delivered, and the length a Size call has read
\* is the number of enqueued ids not yet delivered.
C37_Conservation ==
    /\ Len(dequeued) <= Len(enqueued)
    /\ \A i \in DOMAIN dequeued : i <= Len(enqueued) => dequeued[i].id = enqueued[i]
    /\ \A i \in DOMAIN enqueued :
          \/ \E j \in DOMAIN items : items[j] = enqueued[i]
          \/ \E j \in DOMAIN dequeued : dequeued[j].id = enqueued[i]
    /\ \A c \in DOMAIN enq :
          enq[c].pc = "sz_unlock" => Len(enq[c].seen) + Len(dequeued) = Len(enqueued)

\* C38 After Stop has cancelled the pool's context no Dequeue call that tests the
\* queue goes on to take an id from it.
C38_NoDequeueAfterCancel ==
    [][\A w \in qpool : (ctxDone /\ pw[w].pc = "dq_loop") => pw'[w].pc # "dq_item"]_vars

\* characters of a DNS label
HostChars ==
    {LowerLetters[i] : i \in DOMAIN LowerLetters}
        \cup {"0", "1", "2", "3", "4", "5", "6", "7", "8", "9", "-"}

\* a string lower-cased, with spaces, underscores and dots folded to '-'
FoldedLabel(str) ==
    [i \in 1..Len(str) |->
        IF str[i] \in {" ", "_", "."} THEN "-" ELSE ToLower(str)[i]]

\* C31 The candidate of a Project is <label>.<baseDomain>, the label being the slug
\* (the name when the slug is empty) lower-cased with spaces, underscores and dots
\* folded to '-', and made of a-z, 0-9 and '-' only.
C31_CandidateLabel ==
    (derived # Empty /\ (assignee.slug # Empty \/ assignee.name # Empty)) =>
        LET source == IF assignee.slug # Empty THEN assignee.slug ELSE assignee.name
            label == SplitFirst(derived, Dot)
        IN /\ derived = FoldedLabel(source) \o <<Dot>> \o BaseDomain
           /\ \A i \in DOMAIN label : label[i] \in HostChars

\* the Project named "My App" has its slug My-App turned into my-app.localhost
C31_Witness ==
    /\ assignee.name = <<"M", "y", " ", "A", "p", "p">>
    /\ assignee.slug = <<"M", "y", "-", "A", "p", "p">>
    /\ derived = <<"m", "y", "-", "a", "p", "p", ".">> \o BaseDomain

\* the secret a sender has to sign with: the configured one, or the fallback
SecretInForce == IF cfgSecret = "" THEN DefaultSecret ELSE cfgSecret

\* a request the route has to turn away
Rejectable(req) ==
    \/ req.signature # Sign(SecretInForce)
    \/ req.event # "push"
    \/ ~req.repo \/ ~req.owner \/ ~req.name \/ ~req.headCommit \/ ~req.commitID
    \/ ~req.known

\* C32 A webhook request that is turned away (rate limit, signature, event type,
\* missing fields, unknown repository) creates or changes no Deployment and
\* enqueues nothing.
C32_RejectedNeverReachesCore ==
    /\ (response # NoResponse /\ (~response.allowed \/ Rejectable(response.request))) =>
           ~response.changed
    /\ \A h \in DOMAIN push :
           push[h].pc \in {"create", "enqueue"} => ~Rejectable(push[h].request)

\* a request was answered Rate limit exceeded after a push had created a Deployment
C32_Witness ==
    /\ response.status = 429
    /\ ~response.changed
    /\ Len(deployments) = 1

\* C33 Allow returns true at most rate times within any window of length duration:
\* the (rate+1)-th admission after any admission is at least duration later.
C33_AtMostRatePerWindow ==
    \A i \in DOMAIN allowedAt :
        (i + limiter.rate) \in DOMAIN allowedAt =>
            allowedAt[i + limiter.rate] >= allowedAt[i] + limiter.duration

=============================================================================
